---- MODULE Spec2Model ----
(***************************************************************************)
(* State-machine model of the FAQ bot: its matching engine and handlers    *)
(*   - LRUCache (performance_manager.py), step by step under its RLock     *)
(*   - AsyncConnectionPool (performance_manager.py)                        *)
(*   - PerformanceManager's query/embedding caches and FAQLoader.search    *)
(*     (faq_loader.py)                                                     *)
(*   - FAQLoader.load_faq, create_embeddings and rebuild_index             *)
(*     (faq_loader.py) with the files they read and write                  *)
(*   - PerformanceManager.track_request (performance_manager.py)           *)
(*   - SecurityMiddleware and UserActivity (security_middleware.py)        *)
(*   - start_handler and message_handler (handlers.py) with the            *)
(*     authentication calls of Database (database.py)                      *)
(* Each specification (SpecLRU, SpecPool, SpecPoolFair, SpecSearch,        *)
(* SpecLoader, SpecCorpus, SpecReload, SpecTrack, SpecMetrics, SpecGuard,  *)
(* SpecChat) drives one part and leaves the variables of the other parts   *)
(* at their initial values.                                                *)
(***************************************************************************)
EXTENDS Integers, Sequences, FiniteSets, TLC

VARIABLES
    lru,        \* the LRUCache instance: [max_size, ttl_seconds, od, ts, hits, misses]
    lock,       \* owner of LRUCache._lock, or "none"
    loc,        \* per thread: position and locals of its running get/set/clear
    obs,        \* per thread: what the running call saw when it started (history)
    used,       \* stored keys in order of their last use (set, or get hit) (history)
    now,        \* the clock read by datetime.now()
    pool,       \* the AsyncConnectionPool: [max_connections, sem, active, total]
    task,       \* per asyncio task: idle, waiting, woken or holding a connection
    pm,         \* the global PerformanceManager: caches, metrics, response times
    fl,         \* the FAQLoader: faq, faq_queries, original_indices, index, model
    call,       \* the last search call: arguments, result, what it did (history)
    wrote,      \* per query-cache key: the arguments of the search that wrote it (history)
    disk,       \* the files of the loader: [faq_file, embeddings_file, index_file, corrupt]
    loadOp,     \* the last load_faq / create_embeddings / rebuild_index call (history)
    reload,     \* the thread inside load_faq or rebuild_index: position and locals
    track,      \* the latencies handed to track_request, in arrival order (history)
    mw,         \* the SecurityMiddleware: [user_activities]
    sent,       \* the last event given to the middleware and what became of it (history)
    waiting,    \* handlers.waiting_for_password
    db,         \* the database: [authenticated], the user ids with an active row
    handled     \* the last message given to a handler and what it did (history)

lruVars == <<lru, lock, loc, obs, used>>

poolVars == <<pool, task>>

searchVars == <<pm, fl, call, wrote>>

loaderVars == <<disk, loadOp, reload>>

guardVars == <<mw, sent>>

chatVars == <<waiting, db, handled>>

botVars == <<track, guardVars, chatVars>>

vars == <<lru, lock, loc, obs, used, now, pool, task, pm, fl, call, wrote, disk, loadOp,
          reload, track, mw, sent, waiting, db, handled>>

(***************************************************************************)
(* Python values.  None is the empty tuple; a value that may be None is    *)
(* wrapped as a one-element tuple when it is not (no value stored in the   *)
(* caches of this program is itself None).                                 *)
(***************************************************************************)
PyNone == <<>>

Some(x) == <<x>>

(***************************************************************************)
(* Bounds of the model.                                                    *)
(***************************************************************************)
MaxTime == 2        \* the clock stops here
MaxGets == 2        \* get calls counted by hits + misses
MaxAcquires == 4    \* acquire calls counted by total_connections

MaxSizes == {1, 2}  \* max_size of the cache instances under test

Ttls == {1, 2}      \* ttl_seconds of the cache instances under test

Threads == {"t1", "t2"}

Keys == {"k1", "k2", "k3"}

Values == {"v1", "v2"}

(***************************************************************************)
(* dict / OrderedDict primitives.  An OrderedDict is a sequence of         *)
(* [k, v] records in insertion order; a dict is a function.                *)
(***************************************************************************)
OdKeys(od) == {od[i].k : i \in 1..Len(od)}

HasKey(od, key) == \E i \in 1..Len(od) : od[i].k = key

OdGet(od, key) == od[CHOOSE i \in 1..Len(od) : od[i].k = key].v

OdPop(od, key) == SelectSeq(od, LAMBDA e : e.k # key)

\* self._cache[key] = value: in place when the key is there, appended otherwise
OdSetItem(od, key, value) ==
    IF HasKey(od, key)
    THEN [i \in 1..Len(od) |-> IF od[i].k = key THEN [k |-> key, v |-> value] ELSE od[i]]
    ELSE Append(od, [k |-> key, v |-> value])

MoveToEndSkipped(od, key) == od

MoveToEnd(od, key) == Append(OdPop(od, key), [k |-> key, v |-> OdGet(od, key)])

DictPop(d, key) == [x \in (DOMAIN d) \ {key} |-> d[x]]

DictSet(d, key, value) == [x \in (DOMAIN d) \cup {key} |-> IF x = key THEN value ELSE d[x]]

IsFreshInclusive(ts, key, t, ttl) == key \in DOMAIN ts /\ t - ts[key] <= ttl

\* timestamp and datetime.now() - timestamp < timedelta(seconds=ttl_seconds)
IsFresh(ts, key, t, ttl) == key \in DOMAIN ts /\ t - ts[key] < ttl

OverflowOffByOne(od, maxsz) == Len(od) > maxsz + 1

\* len(self._cache) > self.max_size
Overflow(od, maxsz) == Len(od) > maxsz

\* next(iter(self._cache))
OldestKey(od) == od[1].k

\* LRUCache.__init__
NewCache(max_size, ttl_seconds) ==
    [max_size |-> max_size, ttl_seconds |-> ttl_seconds,
     od |-> <<>>, ts |-> <<>>, hits |-> 0, misses |-> 0]

(***************************************************************************)
(* LRUCache.get / set / clear as steps of the thread that holds the lock.  *)
(* l is the thread's frame: pc, op, key, value, rmkey (argument of         *)
(* _remove_key), retpc (where _remove_key returns to), ret (return value). *)
(***************************************************************************)
IdleFrame == [pc |-> "idle", op |-> "none", key |-> "none", value |-> "none",
              rmkey |-> "none", retpc |-> "none", ret |-> PyNone]

EntryPc(op) == CASE op = "get" -> "get_check"
                 [] op = "set" -> "set_check"
                 [] op = "clear" -> "clear_cache"

NewFrame(op, key, value) == [IdleFrame EXCEPT !.pc = EntryPc(op), !.op = op,
                                              !.key = key, !.value = value]

CallRemove(l, key, retpc) == [l EXCEPT !.pc = "rm_cache", !.rmkey = key, !.retpc = retpc]

GetCheckRefreshing(c, l, t) ==
    IF HasKey(c.od, l.key)
    THEN IF IsFresh(c.ts, l.key, t, c.ttl_seconds)
         THEN [c |-> [c EXCEPT !.od = MoveToEnd(@, l.key), !.hits = @ + 1,
                               !.ts = DictSet(@, l.key, t)],
               l |-> [l EXCEPT !.pc = "unlock", !.ret = Some(OdGet(c.od, l.key))]]
         ELSE [c |-> c, l |-> CallRemove(l, l.key, "get_miss")]
    ELSE [c |-> c, l |-> [l EXCEPT !.pc = "get_miss"]]

\* LRUCache.get up to the hit (lines 73-81)
GetCheck(c, l, t) ==
    IF HasKey(c.od, l.key)
    THEN IF IsFresh(c.ts, l.key, t, c.ttl_seconds)
         THEN [c |-> [c EXCEPT !.od = MoveToEnd(@, l.key), !.hits = @ + 1],
               l |-> [l EXCEPT !.pc = "unlock", !.ret = Some(OdGet(c.od, l.key))]]
         ELSE [c |-> c, l |-> CallRemove(l, l.key, "get_miss")]
    ELSE [c |-> c, l |-> [l EXCEPT !.pc = "get_miss"]]

GetMissUncounted(c, l) == [c |-> c, l |-> [l EXCEPT !.pc = "unlock", !.ret = PyNone]]

\* self._misses += 1; return None
GetMiss(c, l) ==
    [c |-> [c EXCEPT !.misses = @ + 1], l |-> [l EXCEPT !.pc = "unlock", !.ret = PyNone]]

SetCheckInPlace(c, l) == [c |-> c, l |-> [l EXCEPT !.pc = "set_add"]]

\* if key in self._cache: self._remove_key(key)
SetCheck(c, l) ==
    IF HasKey(c.od, l.key)
    THEN [c |-> c, l |-> CallRemove(l, l.key, "set_add")]
    ELSE [c |-> c, l |-> [l EXCEPT !.pc = "set_add"]]

SetAdd(c, l) ==
    [c |-> [c EXCEPT !.od = OdSetItem(@, l.key, l.value)], l |-> [l EXCEPT !.pc = "set_ts"]]

SetTs(c, l, t) ==
    [c |-> [c EXCEPT !.ts = DictSet(@, l.key, t)], l |-> [l EXCEPT !.pc = "set_loop"]]

SetLoop(c, l) ==
    IF Overflow(c.od, c.max_size)
    THEN [c |-> c, l |-> CallRemove(l, OldestKey(c.od), "set_loop")]
    ELSE [c |-> c, l |-> [l EXCEPT !.pc = "unlock"]]

RemoveCache(c, l) ==
    [c |-> [c EXCEPT !.od = OdPop(@, l.rmkey)], l |-> [l EXCEPT !.pc = "rm_ts"]]

RemoveTs(c, l) ==
    [c |-> [c EXCEPT !.ts = DictPop(@, l.rmkey)], l |-> [l EXCEPT !.pc = l.retpc]]

ClearCache(c, l) ==
    [c |-> [c EXCEPT !.od = <<>>], l |-> [l EXCEPT !.pc = "clear_ts"]]

ClearTs(c, l) ==
    [c |-> [c EXCEPT !.ts = <<>>], l |-> [l EXCEPT !.pc = "unlock"]]

Step(c, l, t) ==
    CASE l.pc = "get_check"   -> GetCheck(c, l, t)
      [] l.pc = "get_miss"    -> GetMiss(c, l)
      [] l.pc = "set_check"   -> SetCheck(c, l)
      [] l.pc = "set_add"     -> SetAdd(c, l)
      [] l.pc = "set_ts"      -> SetTs(c, l, t)
      [] l.pc = "set_loop"    -> SetLoop(c, l)
      [] l.pc = "rm_cache"    -> RemoveCache(c, l)
      [] l.pc = "rm_ts"       -> RemoveTs(c, l)
      [] l.pc = "clear_cache" -> ClearCache(c, l)
      [] l.pc = "clear_ts"    -> ClearTs(c, l)

\* a whole call, run to its return under the lock with the clock at t
RECURSIVE RunFrame(_, _, _)
RunFrame(c, l, t) ==
    IF l.pc = "unlock" THEN [c |-> c, l |-> l]
    ELSE LET s == Step(c, l, t) IN RunFrame(s.c, s.l, t)

LRUGet(c, key, t) == RunFrame(c, NewFrame("get", key, "none"), t)

LRUSet(c, key, value, t) == RunFrame(c, NewFrame("set", key, value), t).c

LRUClear(c) == RunFrame(c, NewFrame("clear", "none", "none"), 0).c

(***************************************************************************)
(* Text.  A str is a sequence of one-character strings; " " stands for any *)
(* whitespace, "A" and "B" for upper-case letters.                         *)
(***************************************************************************)
RECURSIVE LStrip(_)
LStrip(s) == IF s # <<>> /\ s[1] = " " THEN LStrip(Tail(s)) ELSE s

RECURSIVE RStrip(_)
RStrip(s) == IF s # <<>> /\ s[Len(s)] = " " THEN RStrip(SubSeq(s, 1, Len(s) - 1)) ELSE s

\* str.strip()
Strip(s) == RStrip(LStrip(s))

LowerChar(c) == CASE c = "A" -> "a" [] c = "B" -> "b" [] OTHER -> c

\* str.lower()
Lower(s) == [i \in 1..Len(s) |-> LowerChar(s[i])]

\* hash(str): taken to be free of collisions on the strings of the model
PyHash(s) == s

\* f"{query}:{k}:{threshold}"; a number prints as one token
CacheKey(query, k, threshold) == query \o <<":", ToString(k), ":", ToString(threshold)>>

\* f"query:{hash(query.lower().strip())}"
QueryKey(text) == <<"query:">> \o PyHash(Strip(Lower(text)))

\* f"embedding:{hash(text.lower().strip())}"
EmbeddingKey(text) == <<"embedding:">> \o PyHash(Strip(Lower(text)))

(***************************************************************************)
(* PerformanceManager.  Similarities and thresholds are in hundredths.     *)
(***************************************************************************)
MaxRequests == 2        \* search calls counted by total_requests
QueryCacheSize == 2     \* max_size of query_cache in the model
QueryCacheTtl == 1      \* ttl_seconds of query_cache in the model
EmbeddingCacheSize == 2 \* max_size of embedding_cache in the model
EmbeddingCacheTtl == 2  \* ttl_seconds of embedding_cache in the model
ResponseWindow == 1000
SimilarityThreshold == 73

\* PerformanceManager.__init__
NewPerformanceManager ==
    [query_cache |-> NewCache(QueryCacheSize, QueryCacheTtl),
     embedding_cache |-> NewCache(EmbeddingCacheSize, EmbeddingCacheTtl),
     metrics |-> [total_requests |-> 0, avg_response_time |-> <<0, 1>>,
                  cache_hits |-> 0, cache_misses |-> 0, active_connections |-> 0,
                  embeddings_load_time |-> 0],
     response_times |-> <<>>]

\* sum(xs), summed by halves so that a full window of 1000 values is within reach
RECURSIVE SumSeq(_)
SumSeq(xs) ==
    IF xs = <<>> THEN 0
    ELSE IF Len(xs) = 1 THEN xs[1]
    ELSE LET half == Len(xs) \div 2
         IN SumSeq(SubSeq(xs, 1, half)) + SumSeq(SubSeq(xs, half + 1, Len(xs)))

\* a window that keeps the oldest n values instead of the newest
FirstN(xs, n) == IF Len(xs) > n THEN SubSeq(xs, 1, n) ELSE xs

LastN(xs, n) == IF Len(xs) > n THEN SubSeq(xs, Len(xs) - n + 1, Len(xs)) ELSE xs

\* PerformanceManager.track_request; the average is kept as <<sum, count>>
TrackRequest(P, response_time, active) ==
    LET total == P.metrics.total_requests + 1
        times == LastN(Append(P.response_times, response_time), ResponseWindow)
    IN [P EXCEPT !.metrics.total_requests = total,
                 !.response_times = times,
                 !.metrics.avg_response_time = <<SumSeq(times), Len(times)>>,
                 !.metrics.active_connections = IF total % 10 = 0 THEN active ELSE @]

\* PerformanceManager.cache_query_result
CacheQueryResult(P, query, result, t) ==
    [P EXCEPT !.query_cache = LRUSet(@, QueryKey(query), result, t)]

\* PerformanceManager.get_cached_query_result
GetCachedQueryResult(P, query, t) ==
    LET g == LRUGet(P.query_cache, QueryKey(query), t)
    IN [pm |-> [P EXCEPT !.query_cache = g.c,
                         !.metrics.cache_hits = IF g.l.ret # PyNone THEN @ + 1 ELSE @,
                         !.metrics.cache_misses = IF g.l.ret # PyNone THEN @ ELSE @ + 1],
        ret |-> g.l.ret]

CacheEmbeddingSkipped(P, text, embedding, t) == P

\* PerformanceManager.cache_embedding
CacheEmbedding(P, text, embedding, t) ==
    [P EXCEPT !.embedding_cache = LRUSet(@, EmbeddingKey(text), embedding, t)]

\* PerformanceManager.get_cached_embedding
GetCachedEmbedding(P, text, t) ==
    LET g == LRUGet(P.embedding_cache, EmbeddingKey(text), t)
    IN [pm |-> [P EXCEPT !.embedding_cache = g.c], ret |-> g.l.ret]

\* PerformanceManager.clear_caches
ClearedCaches(P) ==
    [P EXCEPT !.query_cache = LRUClear(@), !.embedding_cache = LRUClear(@)]

(***************************************************************************)
(* The embedding provider and the vector index (external).  A vector is    *)
(* known by the text it was encoded from; the inner product of two vectors *)
(* is 100 for the same text, 80 for texts that differ in case only and 20  *)
(* otherwise.  Index rows are numbered from 0.                             *)
(***************************************************************************)
\* SentenceTransformer.encode([text], normalize_embeddings=True)
Encode(text) == [text |-> text]

InnerProduct(v, w) ==
    IF v.text = w.text THEN 100
    ELSE IF Lower(v.text) = Lower(w.text) THEN 80 ELSE 20

Min(a, b) == IF a < b THEN a ELSE b

\* faiss IndexFlatIP.search(x, k): every list of the k nearest rows, best first
\* (the order of equally near rows is the index's choice)
IndexSearch(rows, v, kk) ==
    {r \in [1..kk -> 0..(Len(rows) - 1)] :
        /\ \A i, j \in 1..kk : i < j =>
              /\ r[i] # r[j]
              /\ InnerProduct(v, rows[r[i] + 1]) >= InnerProduct(v, rows[r[j] + 1])
        /\ \A x \in 0..(Len(rows) - 1) :
              (\A i \in 1..kk : r[i] # x) =>
                  InnerProduct(v, rows[x + 1]) <= InnerProduct(v, rows[r[kk] + 1])}

(***************************************************************************)
(* FAQLoader.                                                              *)
(***************************************************************************)
NoneNone == <<PyNone, PyNone>>

\* ([best_similarity], [best_idx])
Found(similarity, idx) == <<Some(<<similarity>>), Some(<<idx>>)>>

\* FAQLoader.__init__
NewLoader == [faq |-> PyNone, faq_queries |-> PyNone, original_indices |-> <<>>,
              index |-> PyNone, model |-> PyNone, model_loaded |-> FALSE]

\* a FAQ item {"query": q, "response": ..., "variations": variations}: isdict
\* is isinstance(item, dict), query is None when there is no 'query' key,
\* isstr is isinstance(item['query'], str), response is 'response' in item
Entry(q, variations) ==
    [isdict |-> TRUE, query |-> Some(q), isstr |-> TRUE, response |-> TRUE,
     variations |-> variations]

\* the loader after main's load_faq() and create_embeddings() on
\* [{"query": "a", ...}, {"query": "b", ...}]
LoadedLoader ==
    [faq |-> Some(<<Entry(<<"a">>, <<>>), Entry(<<"b">>, <<>>)>>),
     faq_queries |-> Some(<<<<"a">>, <<"b">>>>),
     original_indices |-> <<0, 1>>,
     index |-> Some(<<Encode(<<"a">>), Encode(<<"b">>)>>),
     model |-> Some("RoSBERTa"), model_loaded |-> TRUE]

\* not x, for x None or a list
Falsy(x) == x = PyNone \/ x[1] = <<>>

\* FAQLoader._load_model
LoadModel(P, F, ok) ==
    IF F.model_loaded /\ F.model # PyNone THEN [pm |-> P, fl |-> F, raised |-> FALSE]
    ELSE IF ok
         THEN [pm |-> [P EXCEPT !.metrics.embeddings_load_time = 1],
               fl |-> [F EXCEPT !.model = Some("RoSBERTa"), !.model_loaded = TRUE],
               raised |-> FALSE]
         ELSE [pm |-> P, fl |-> F, raised |-> TRUE]

\* what a search call hands back to the action: the new state, the returned
\* value, the exit taken and which collaborators the call used
Exit(P, F, ret, path, did) ==
    [pm |-> P, fl |-> F, ret |-> ret, path |-> path,
     embLookup |-> "lookup" \in did, encoded |-> "encode" \in did,
     searched |-> "search" \in did, stored |-> "store" \in did,
     fault |-> "fault" \in did, cands |-> <<>>, kept |-> <<>>]

\* an exception on its way out of the try block: no value is returned
Raise(P, F, did) == Exit(P, F, PyNone, "raise", did)

ExceptReraise(x, cache_key, path, t) == x

ExceptCached(x, cache_key, path, t) ==
    IF x.path = "raise"
    THEN [x EXCEPT !.ret = NoneNone, !.path = path, !.stored = TRUE,
                   !.pm = CacheQueryResult(x.pm, cache_key, NoneNone, t)]
    ELSE x

\* except Exception as e: logger.error(...); return None, None
Except(x, cache_key, path, t) ==
    IF x.path = "raise" THEN [x EXCEPT !.ret = NoneNone, !.path = path] ELSE x

IsBlankBeforeStrip(raw) == raw = <<>>

\* not query, or not query.strip()
IsBlank(raw) == raw = <<>> \/ Strip(raw) = <<>>

CachedResultNever(cached) == FALSE

CachedResultTruthy(cached) == cached # PyNone /\ cached[1] # NoneNone

\* cached_result is not None
CachedResultUsable(cached) == cached # PyNone

ValidThresholdUnchecked(threshold) == threshold

\* 0.0 <= threshold <= 1.0, else config.ml.similarity_threshold
ValidThreshold(threshold) ==
    IF 0 <= threshold /\ threshold <= 100 THEN threshold ELSE SimilarityThreshold

\* the (similarity, idx) pairs the filter loop of search reads
Candidates(F, hits, v, k) ==
    LET rows == F.index[1]
        n == Min(k, Len(hits))
    IN [i \in 1..n |-> [similarity |-> InnerProduct(v, rows[hits[i] + 1]), idx |-> hits[i]]]

FilteredStrictly(F, hits, v, k, threshold) ==
    LET cand == Candidates(F, hits, v, k)
        kept == SelectSeq(cand, LAMBDA c :
                    /\ 0 <= c.idx /\ c.idx < Len(F.original_indices)
                    /\ c.similarity > threshold)
    IN [i \in 1..Len(kept) |-> [similarity |-> kept[i].similarity,
                                original_idx |-> F.original_indices[kept[i].idx + 1]]]

\* the filter loop of search: the candidates kept, in the order of the index
Filtered(F, hits, v, k, threshold) ==
    LET cand == Candidates(F, hits, v, k)
        kept == SelectSeq(cand, LAMBDA c :
                    /\ 0 <= c.idx /\ c.idx < Len(F.original_indices)
                    /\ 0 <= F.original_indices[c.idx + 1]
                    /\ F.original_indices[c.idx + 1] < Len(F.faq[1])
                    /\ c.similarity >= threshold)
    IN [i \in 1..Len(kept) |-> [similarity |-> kept[i].similarity,
                                original_idx |-> F.original_indices[kept[i].idx + 1]]]

\* filtered_results.sort(key=similarity, reverse=True)[0]: the first of the best
BestOf(filtered) ==
    filtered[CHOOSE i \in 1..Len(filtered) :
                /\ \A j \in 1..Len(filtered) : filtered[j].similarity <= filtered[i].similarity
                /\ \A j \in 1..(i - 1) : filtered[j].similarity < filtered[i].similarity]

StoreSkipped(P, cache_key, result, t) == P

\* performance_manager.cache_query_result(cache_key, result) at the end of search
StoreResult(P, cache_key, result, t) == CacheQueryResult(P, cache_key, result, t)

\* search, from the results of the index to the cache write (lines 465-522)
SearchFilter(P, F, cache_key, k, threshold, v, hits, did, t) ==
    IF hits = <<>>
    THEN Exit(StoreResult(P, cache_key, NoneNone, t), F, NoneNone, "empty", did \cup {"store"})
    ELSE LET filtered == Filtered(F, hits, v, k, threshold)
             result == IF filtered # <<>>
                       THEN Found(BestOf(filtered).similarity, BestOf(filtered).original_idx)
                       ELSE NoneNone
         IN [Exit(StoreResult(P, cache_key, result, t), F, result,
                  IF filtered # <<>> THEN "found" ELSE "no_match", did \cup {"store"})
             EXCEPT !.cands = Candidates(F, hits, v, k), !.kept = filtered]

\* search, the index search (lines 456-463): the outcomes the index allows.
\* With search_k < 1 faiss refuses the call (its k > 0 check); a build without
\* that check answers k = 0 with empty result lists.
SearchIndex(P, F, cache_key, k, threshold, v, env, did, t) ==
    LET search_k == Min(k, Len(F.index[1]))
    IN IF ~env.searchOk
       THEN {Except(Raise(P, F, did \cup {"search", "fault"}), cache_key, "search_error", t)}
       ELSE IF search_k < 1
       THEN {Except(Raise(P, F, did \cup {"search"}), cache_key, "search_error", t)}
            \cup (IF search_k = 0
                  THEN {SearchFilter(P, F, cache_key, k, threshold, v, <<>>,
                                     did \cup {"search"}, t)}
                  ELSE {})
       ELSE {SearchFilter(P, F, cache_key, k, threshold, v, hits, did \cup {"search"}, t) :
                hits \in IndexSearch(F.index[1], v, search_k)}

\* search, from the embedding-cache lookup to the index search (lines 418-454)
SearchEmbedding(P, F, query, cache_key, k, threshold, env, t) ==
    LET e == GetCachedEmbedding(P, query, t)
    IN IF e.ret # PyNone
       THEN SearchIndex(e.pm, F, cache_key, k, threshold, e.ret[1], env, {"lookup"}, t)
       ELSE IF ~env.encodeOk
            THEN {Except(Raise(e.pm, F, {"lookup", "encode", "fault"}),
                         cache_key, "encode_error", t)}
            ELSE SearchIndex(CacheEmbedding(e.pm, query, Encode(query), t), F, cache_key,
                             k, threshold, Encode(query), env, {"lookup", "encode"}, t)

\* FAQLoader.search up to its return (lines 380-526)
SearchBody(P, F, raw, k, threshold, env, t) ==
    IF IsBlank(raw) THEN {Exit(P, F, NoneNone, "invalid", {})}
    ELSE LET query == Strip(raw)
             cache_key == CacheKey(query, k, threshold)
             g == GetCachedQueryResult(P, cache_key, t)
         IN IF CachedResultUsable(g.ret) THEN {Exit(g.pm, F, g.ret[1], "hit", {})}
            ELSE IF F.index = PyNone THEN {Exit(g.pm, F, NoneNone, "no_index", {})}
            ELSE IF Falsy(F.faq) THEN {Exit(g.pm, F, NoneNone, "no_faq", {})}
            ELSE LET m == LoadModel(g.pm, F, env.modelOk)
                 IN IF m.raised
                    THEN {Except(Raise(m.pm, m.fl, {"fault"}), cache_key, "exception", t)}
                    ELSE IF m.fl.model = PyNone
                         THEN {Exit(m.pm, m.fl, NoneNone, "no_model", {})}
                    ELSE SearchEmbedding(m.pm, m.fl, query, cache_key, k,
                                         ValidThreshold(threshold), env, t)

(***************************************************************************)
(* FAQLoader: loading the corpus and building the index.  A file is        *)
(* [kind, items]: kind is "missing" (no such file), "garbage" (not JSON),  *)
(* "object" (JSON, not a list) or "list" (a JSON list of items).  The      *)
(* cache files hold the vectors and the index rows, or None when absent.   *)
(***************************************************************************)
FaqList(items) == [kind |-> "list", items |-> items]

NoList(kind) == [kind |-> kind, items |-> <<>>]

\* items that _validate_faq_item refuses: a JSON value that is not an object,
\* an object without 'query', one whose query is "", one whose query is a
\* number, and one without 'response'
NotADict == [Entry(<<"a">>, <<>>) EXCEPT !.isdict = FALSE]

WithoutQuery == [Entry(<<>>, <<>>) EXCEPT !.query = PyNone]

EmptyQuery == Entry(<<>>, <<>>)

NumberQuery == [Entry(<<"a">>, <<>>) EXCEPT !.isstr = FALSE]

WithoutResponse(q) == [Entry(q, <<>>) EXCEPT !.response = FALSE]

ValidateFaqItemQueryOnly(item) ==
    /\ item.isdict
    /\ item.query # PyNone
    /\ item.query[1] # <<>> /\ item.isstr

\* FAQLoader._validate_faq_item
ValidateFaqItem(item) ==
    /\ item.isdict
    /\ item.query # PyNone
    /\ item.query[1] # <<>> /\ item.isstr
    /\ item.response

StripAll(texts) == [i \in 1..Len(texts) |-> Strip(texts[i])]

\* the searchable strings of one validated item: its main query, then its
\* variations, each stripped and kept when not empty (lines 176-190)
ItemStrings(item) ==
    LET main_query == Strip(item.query[1])
    IN (IF main_query # <<>> THEN <<main_query>> ELSE <<>>)
       \o SelectSeq(StripAll(item.variations), LAMBDA text : text # <<>>)

\* the loop of load_faq over raw_data (lines 167-190)
RECURSIVE LoadItems(_, _, _)
LoadItems(raw_data, i, acc) ==
    IF i > Len(raw_data) THEN acc
    ELSE IF ~ValidateFaqItem(raw_data[i]) THEN LoadItems(raw_data, i + 1, acc)
    ELSE LET faq == Append(acc.faq, raw_data[i])
             texts == ItemStrings(raw_data[i])
         IN LoadItems(raw_data, i + 1,
                [faq |-> faq,
                 faq_queries |-> acc.faq_queries \o texts,
                 original_indices |-> acc.original_indices
                                        \o [j \in 1..Len(texts) |-> Len(faq) - 1]])

\* self.faq = []; self.faq_queries = []; self.original_indices = []
ResetCorpus(F) == [F EXCEPT !.faq = Some(<<>>), !.faq_queries = Some(<<>>),
                            !.original_indices = <<>>]

CheckRawDataAfterReset(F, file) ==
    [fl |-> ResetCorpus(F),
     raised |-> file.kind # "list" \/ file.items = <<>>]

\* load_faq up to the checks of raw_data (lines 146-158): the file is there,
\* is JSON, is a list and is not empty, or the load raises
CheckRawData(F, file) ==
    [fl |-> F,
     raised |-> file.kind # "list" \/ file.items = <<>>]

\* FAQLoader.load_faq
LoadFaq(F, file) ==
    LET c == CheckRawData(F, file)
    IN IF c.raised THEN c
       ELSE LET acc == LoadItems(file.items, 1,
                           [faq |-> <<>>, faq_queries |-> <<>>, original_indices |-> <<>>])
            IN [fl |-> [ResetCorpus(c.fl) EXCEPT !.faq = Some(acc.faq),
                                                 !.faq_queries = Some(acc.faq_queries),
                                                 !.original_indices = acc.original_indices],
                raised |-> acc.faq_queries = <<>>]

\* model.encode(valid_queries, normalize_embeddings=True)
EncodeAll(texts) == [i \in 1..Len(texts) |-> Encode(texts[i])]

CacheSizeAlwaysMatches(faq_embeddings, faq_queries) == TRUE

\* len(faq_embeddings) != len(self.faq_queries) is false
CacheSizeMatches(faq_embeddings, faq_queries) == Len(faq_embeddings) = Len(faq_queries)

\* FAQLoader.create_embeddings
CreateEmbeddings(P, F, D, force_rebuild, env) ==
    IF Falsy(F.faq_queries) \/ Falsy(F.faq)
    THEN [pm |-> P, fl |-> F, disk |-> D, raised |-> TRUE]
    ELSE LET m == LoadModel(P, F, env.modelOk)
             \* pickle.load raises on a corrupt file and the except clause
             \* clears cache_valid (lines 277-279)
             cache_valid == /\ ~force_rebuild
                            /\ D.embeddings_file # PyNone
                            /\ D.index_file # PyNone
                            /\ ~D.corrupt
             \* self.index = faiss.read_index(...) comes before the size check
             G == IF cache_valid THEN [m.fl EXCEPT !.index = D.index_file] ELSE m.fl
             valid_queries == SelectSeq(StripAll(G.faq_queries[1]), LAMBDA text : text # <<>>)
             H == IF Len(valid_queries) # Len(G.faq_queries[1])
                  THEN [G EXCEPT !.faq_queries = Some(valid_queries)] ELSE G
             faq_embeddings == EncodeAll(valid_queries)
         IN IF m.raised \/ m.fl.model = PyNone
            THEN [pm |-> m.pm, fl |-> m.fl, disk |-> D, raised |-> TRUE]
            ELSE IF cache_valid /\ CacheSizeMatches(D.embeddings_file[1], G.faq_queries[1])
            THEN [pm |-> m.pm, fl |-> G, disk |-> D, raised |-> FALSE]
            ELSE IF valid_queries = <<>>
            THEN [pm |-> m.pm, fl |-> G, disk |-> D, raised |-> TRUE]
            ELSE IF ~env.encodeOk
            THEN [pm |-> m.pm, fl |-> H, disk |-> D, raised |-> TRUE]
            ELSE [pm |-> m.pm,
                  fl |-> [H EXCEPT !.index = Some(faq_embeddings)],
                  disk |-> [D EXCEPT !.embeddings_file = Some(faq_embeddings),
                                     !.index_file = Some(faq_embeddings),
                                     !.corrupt = FALSE],
                  raised |-> FALSE]

\* the cache files after rebuild_index unlinked them (lines 604-607)
Unlinked(D) == [D EXCEPT !.embeddings_file = PyNone, !.index_file = PyNone,
                         !.corrupt = FALSE]

RebuildIndexAlwaysTrue(P, F, D, env) ==
    LET l == LoadFaq(F, D.faq_file)
        c == CreateEmbeddings(P, l.fl, Unlinked(D), TRUE, env)
    IN IF l.raised
       THEN [pm |-> P, fl |-> l.fl, disk |-> Unlinked(D), ret |-> TRUE]
       ELSE [pm |-> c.pm, fl |-> c.fl, disk |-> c.disk, ret |-> TRUE]

\* FAQLoader.rebuild_index
RebuildIndex(P, F, D, env) ==
    LET l == LoadFaq(F, D.faq_file)
        c == CreateEmbeddings(P, l.fl, Unlinked(D), TRUE, env)
    IN IF l.raised
       THEN [pm |-> P, fl |-> l.fl, disk |-> Unlinked(D), ret |-> FALSE]
       ELSE [pm |-> c.pm, fl |-> c.fl, disk |-> c.disk, ret |-> ~c.raised]

\* FAQLoader.is_ready
IsReady(F) ==
    /\ F.faq # PyNone
    /\ F.faq_queries # PyNone
    /\ F.index # PyNone
    /\ F.model_loaded
    /\ F.model # PyNone

\* faq.json as main finds it, and no cache file yet; corrupt says that
\* embeddings.pkl is there and cannot be unpickled
DefaultFaq == FaqList(<<Entry(<<"a">>, <<>>), Entry(<<"b">>, <<>>)>>)

NewDisk == [faq_file |-> DefaultFaq, embeddings_file |-> PyNone, index_file |-> PyNone,
            corrupt |-> FALSE]

\* what a call finds in embeddings.pkl: the number of vectors, -1 without a
\* readable file
StoredCount(D) ==
    IF D.embeddings_file = PyNone \/ D.corrupt THEN -1 ELSE Len(D.embeddings_file[1])

NoOp == [name |-> "none", raised |-> FALSE, ret |-> FALSE, n |-> 0, afterLoad |-> FALSE]

(***************************************************************************)
(* load_faq and rebuild_index statement by statement, for a caller on a    *)
(* thread of its own (the class takes no lock).  l is the thread's frame:  *)
(* pc, op, raw_data, the loop counters i (items) and j (variations), the   *)
(* encoded vectors, raised, and old, the loader as the call found it       *)
(* (history).                                                              *)
(***************************************************************************)
NoReload == [pc |-> "idle", op |-> "none", raw_data |-> <<>>, i |-> 0, j |-> 0,
             vectors |-> <<>>, raised |-> FALSE, old |-> NewLoader]

\* the first statement of the call
ReloadEntryPc(name) == IF name = "rebuild_index" THEN "ri_unlink" ELSE "lf_read"

\* where load_faq returns (or raises) to
AfterLoadFaq(l) == IF l.op = "rebuild_index" /\ ~l.raised THEN "ce_guard" ELSE "done"

\* one statement of load_faq (lines 146-193)
LoadStep(F, file, l) ==
    LET item == l.raw_data[l.i]
        last == Len(F.faq[1]) - 1
    IN CASE l.pc = "lf_read" ->
              IF CheckRawData(F, file).raised
              THEN [fl |-> F, l |-> [l EXCEPT !.raised = TRUE, !.pc = "done"]]
              ELSE [fl |-> F, l |-> [l EXCEPT !.raw_data = file.items, !.pc = "lf_reset_faq"]]
         [] l.pc = "lf_reset_faq" ->
              [fl |-> [F EXCEPT !.faq = Some(<<>>)], l |-> [l EXCEPT !.pc = "lf_reset_queries"]]
         [] l.pc = "lf_reset_queries" ->
              [fl |-> [F EXCEPT !.faq_queries = Some(<<>>)],
               l |-> [l EXCEPT !.pc = "lf_reset_indices"]]
         [] l.pc = "lf_reset_indices" ->
              [fl |-> [F EXCEPT !.original_indices = <<>>],
               l |-> [l EXCEPT !.i = 1, !.pc = "lf_item"]]
         [] l.pc = "lf_item" ->
              IF l.i > Len(l.raw_data)
              THEN [fl |-> F, l |-> [l EXCEPT !.pc = "lf_check"]]
              ELSE IF ~ValidateFaqItem(item)
              THEN [fl |-> F, l |-> [l EXCEPT !.i = @ + 1]]
              ELSE [fl |-> [F EXCEPT !.faq = Some(Append(@[1], item))],
                    l |-> [l EXCEPT !.pc = "lf_main"]]
         [] l.pc = "lf_main" ->
              IF Strip(item.query[1]) # <<>>
              THEN [fl |-> [F EXCEPT !.faq_queries = Some(Append(@[1], Strip(item.query[1])))],
                    l |-> [l EXCEPT !.pc = "lf_main_idx"]]
              ELSE [fl |-> F, l |-> [l EXCEPT !.j = 1, !.pc = "lf_var"]]
         [] l.pc = "lf_main_idx" ->
              [fl |-> [F EXCEPT !.original_indices = Append(@, last)],
               l |-> [l EXCEPT !.j = 1, !.pc = "lf_var"]]
         [] l.pc = "lf_var" ->
              IF l.j > Len(item.variations)
              THEN [fl |-> F, l |-> [l EXCEPT !.i = @ + 1, !.pc = "lf_item"]]
              ELSE IF Strip(item.variations[l.j]) = <<>>
              THEN [fl |-> F, l |-> [l EXCEPT !.j = @ + 1]]
              ELSE [fl |-> [F EXCEPT !.faq_queries =
                                        Some(Append(@[1], Strip(item.variations[l.j])))],
                    l |-> [l EXCEPT !.pc = "lf_var_idx"]]
         [] l.pc = "lf_var_idx" ->
              [fl |-> [F EXCEPT !.original_indices = Append(@, last)],
               l |-> [l EXCEPT !.j = @ + 1, !.pc = "lf_var"]]
         [] l.pc = "lf_check" ->
              LET r == [l EXCEPT !.raised = (F.faq_queries[1] = <<>>)]
              IN [fl |-> F, l |-> [r EXCEPT !.pc = AfterLoadFaq(r)]]

\* one statement of rebuild_index outside load_faq: the unlinking of the
\* cache files, then create_embeddings(force_rebuild=True) (lines 233-355)
RebuildStep(P, F, D, l, env) ==
    LET same == [pm |-> P, fl |-> F, disk |-> D, l |-> l]
        fail == [same EXCEPT !.l.raised = TRUE, !.l.pc = "done"]
        m == LoadModel(P, F, env.modelOk)
        valid_queries == SelectSeq(StripAll(F.faq_queries[1]), LAMBDA text : text # <<>>)
    IN CASE l.pc = "ri_unlink" -> [same EXCEPT !.disk = Unlinked(D), !.l.pc = "lf_read"]
         [] l.pc = "ce_guard" ->
              IF Falsy(F.faq_queries) \/ Falsy(F.faq) THEN fail
              ELSE [same EXCEPT !.l.pc = "ce_model"]
         [] l.pc = "ce_model" ->
              IF m.raised \/ m.fl.model = PyNone
              THEN [fail EXCEPT !.pm = m.pm, !.fl = m.fl]
              ELSE [same EXCEPT !.pm = m.pm, !.fl = m.fl, !.l.pc = "ce_encode"]
         [] l.pc = "ce_encode" ->
              IF valid_queries = <<>> THEN fail
              ELSE IF ~env.encodeOk
              THEN [fail EXCEPT !.fl.faq_queries = Some(valid_queries)]
              ELSE [same EXCEPT !.fl.faq_queries = Some(valid_queries),
                                !.l.vectors = EncodeAll(valid_queries),
                                !.l.pc = "ce_new_index"]
         \* self.index = faiss.IndexFlatIP(dimension): an index without rows
         [] l.pc = "ce_new_index" -> [same EXCEPT !.fl.index = Some(<<>>), !.l.pc = "ce_add"]
         [] l.pc = "ce_add" -> [same EXCEPT !.fl.index = Some(l.vectors), !.l.pc = "ce_save"]
         [] l.pc = "ce_save" ->
              [same EXCEPT !.disk = [D EXCEPT !.embeddings_file = Some(l.vectors),
                                              !.index_file = Some(l.vectors),
                                              !.corrupt = FALSE],
                           !.l.pc = "done"]

\* one statement of the running call
ReloadStep(P, F, D, l, env) ==
    IF l.pc \in {"lf_read", "lf_reset_faq", "lf_reset_queries", "lf_reset_indices", "lf_item",
                 "lf_main", "lf_main_idx", "lf_var", "lf_var_idx", "lf_check"}
    THEN LET s == LoadStep(F, D.faq_file, l) IN [pm |-> P, fl |-> s.fl, disk |-> D, l |-> s.l]
    ELSE RebuildStep(P, F, D, l, env)

(***************************************************************************)
(* Construction of the connection pool (its operations follow SpecLRU).    *)
(***************************************************************************)
Tasks == {"a", "b", "c"}

PoolSizes == {1, 2}

\* asyncio.Semaphore(max_connections)
NewSemaphore(n) == [value |-> n, waiters |-> <<>>]

\* AsyncConnectionPool.__init__
NewPool(n) == [max_connections |-> n, sem |-> NewSemaphore(n), active |-> 0, total |-> 0]

(***************************************************************************)
(* The search side at rest (before any search call).                       *)
(***************************************************************************)
NoCall == [raw |-> <<>>, k |-> 0, threshold |-> 0, ret |-> NoneNone, path |-> "none",
           embLookup |-> FALSE, encoded |-> FALSE, searched |-> FALSE, stored |-> FALSE,
           fault |-> FALSE, cands |-> <<>>, kept |-> <<>>]

SearchIdle ==
    /\ pm = NewPerformanceManager
    /\ fl = NewLoader
    /\ call = NoCall
    /\ disk = NewDisk
    /\ loadOp = NoOp
    /\ reload = NoReload
    /\ wrote = <<>>

(***************************************************************************)
(* SpecLRU: threads calling get, set and clear on one LRUCache.            *)
(***************************************************************************)
LockFreeUnguarded == TRUE

\* with self._lock: the RLock is free (no call of this class re-enters it)
LockFree == lock = "none"

\* the key the LRU discipline would evict: the least recently used stored key
LruVictim(od, u) ==
    LET present == SelectSeq(u, LAMBDA k : HasKey(od, k))
    IN IF present = <<>> THEN "none" ELSE present[1]

Forget(u, gone) == SelectSeq(u, LAMBDA k : k \notin gone)

Touch(u, key) == Append(Forget(u, {key}), key)

\* no latency has been handed to track_request yet; `start` counts the calls made
\* before the behaviour begins, `times` lists every latency ever recorded
NoTrack == [start |-> 0, times |-> <<>>]

\* SecurityMiddleware.__init__
NewMiddleware == [user_activities |-> <<>>]

\* no event has reached the middleware; `accepted` lists the times at which events
\* of the tracked user were forwarded to the handler
NoEvent == [n |-> 0, event |-> [user |-> "none", valid_user |-> TRUE, text_ok |-> TRUE],
            forwarded |-> FALSE, limited |-> FALSE, accepted |-> <<>>]

\* the authenticated_users table is empty
NewDatabase == [authenticated |-> {}]

\* no message has reached a handler
NoMessage == [n |-> 0, user |-> "none", text |-> <<>>, handler |-> "none",
              searched |-> FALSE, reply |-> "none"]

\* the security middleware as constructed
GuardIdle ==
    /\ mw = NewMiddleware
    /\ sent = NoEvent

\* the handlers and the database before any message
ChatIdle ==
    /\ waiting = {}
    /\ db = NewDatabase
    /\ handled = NoMessage

\* the parts of the bot a specification does not exercise stay as constructed
BotIdle ==
    /\ track = NoTrack
    /\ GuardIdle
    /\ ChatIdle

NoObs == [present |-> FALSE, age |-> 0, size |-> 0, victim |-> "none", victimTs |-> 0,
          evicted |-> <<>>]

InitLRU ==
    /\ lru \in {NewCache(m, s) : m \in MaxSizes, s \in Ttls}
    /\ lock = "none"
    /\ loc = [t \in Threads |-> IdleFrame]
    /\ obs = [t \in Threads |-> NoObs]
    /\ used = <<>>
    /\ now = 0
    /\ pool = NewPool(1)
    /\ task = [t \in Tasks |-> "idle"]
    /\ SearchIdle
    /\ BotIdle

\* a thread enters get/set/clear and takes the lock
Begin(t, op, key, value) ==
    /\ loc[t].pc = "idle"
    /\ LockFree
    /\ op = "get" => lru.hits + lru.misses < MaxGets
    /\ lock' = t
    /\ loc' = [loc EXCEPT ![t] = NewFrame(op, key, value)]
    /\ obs' = [obs EXCEPT ![t] =
                 [present |-> HasKey(lru.od, key),
                  age |-> IF key \in DOMAIN lru.ts THEN now - lru.ts[key] ELSE 0,
                  size |-> Len(lru.od),
                  victim |-> LruVictim(lru.od, used),
                  victimTs |-> IF LruVictim(lru.od, used) \in DOMAIN lru.ts
                               THEN lru.ts[LruVictim(lru.od, used)] ELSE 0,
                  evicted |-> <<>>]]
    /\ UNCHANGED <<lru, used, now, pool, task, searchVars, loaderVars, botVars>>

\* one statement of the call
StepThread(t) ==
    /\ loc[t].pc \notin {"idle", "unlock"}
    /\ LET s == Step(lru, loc[t], now)
           hit == loc[t].pc = "get_check" /\ s.l.ret # PyNone
           evict == loc[t].pc = "set_loop" /\ s.l.pc = "rm_cache"
       IN /\ lru' = s.c
          /\ loc' = [loc EXCEPT ![t] = s.l]
          /\ used' = CASE loc[t].pc = "set_add" \/ hit -> Touch(used, loc[t].key)
                        [] loc[t].pc = "rm_cache" -> Forget(used, {loc[t].rmkey})
                        [] loc[t].pc = "clear_cache" -> <<>>
                        [] OTHER -> used
          /\ obs' = IF evict
                    THEN [obs EXCEPT ![t].evicted = Append(@, s.l.rmkey)]
                    ELSE obs
    /\ UNCHANGED <<lock, now, pool, task, searchVars, loaderVars, botVars>>

\* the call returns and the lock is released
End(t) ==
    /\ loc[t].pc = "unlock"
    /\ lock' = "none"
    /\ loc' = [loc EXCEPT ![t] = IdleFrame]
    /\ obs' = [obs EXCEPT ![t] = NoObs]
    /\ UNCHANGED <<lru, used, now, pool, task, searchVars, loaderVars, botVars>>

Tick ==
    /\ now < MaxTime
    /\ now' = now + 1
    /\ UNCHANGED <<lru, lock, loc, obs, used, pool, task, searchVars, loaderVars, botVars>>

NextLRU ==
    \/ \E t \in Threads, key \in Keys : Begin(t, "get", key, "none")
    \/ \E t \in Threads, key \in Keys, value \in Values : Begin(t, "set", key, value)
    \/ \E t \in Threads : Begin(t, "clear", "none", "none")
    \/ \E t \in Threads : StepThread(t)
    \/ \E t \in Threads : End(t)
    \/ Tick

SpecLRU == InitLRU /\ [][NextLRU]_vars

\* no thread is inside the body of a call: what any caller can observe
Quiescent == \A t \in Threads : loc[t].pc \in {"idle", "unlock"}

Returning(t, op) == loc[t].pc = "unlock" /\ loc[t].op = op

(* C1: whenever no call is in the middle of its body, the cache stores at
   most max_size entries, whatever get/set/clear calls the threads made. *)
C1_SizeAtMostMax == Quiescent => Len(lru.od) <= lru.max_size

C1_Witness ==
    \E t \in Threads : /\ Returning(t, "set")
                        /\ obs[t].evicted # <<>>
                        /\ Len(lru.od) = lru.max_size

(* C2: a set of a key that is not stored, made when the cache is full,
   leaves exactly max_size entries and evicts exactly one key, the one
   least recently used (by set or by a get hit) when the call started. *)
C2_EvictsLeastRecentlyUsed ==
    \A t \in Threads :
        (Returning(t, "set") /\ ~obs[t].present /\ obs[t].size = lru.max_size)
        => /\ Len(lru.od) = lru.max_size
           /\ obs[t].evicted = <<obs[t].victim>>
           /\ ~HasKey(lru.od, obs[t].victim)
           /\ HasKey(lru.od, loc[t].key)

\* the evicted key was inserted after a key that stays: a get hit had reordered them
C2_Witness ==
    \E t \in Threads :
        /\ Returning(t, "set") /\ ~obs[t].present /\ obs[t].size = lru.max_size
        /\ obs[t].evicted = <<obs[t].victim>>
        /\ \E r \in OdKeys(lru.od) \ {loc[t].key} : lru.ts[r] < obs[t].victimTs

(* C3: a get of a stored key whose age is at least ttl_seconds returns None
   and removes the entry (the size drops by one); a get of a key that is not
   stored returns None and stores nothing, so the expired key stays a miss
   until it is set again. *)
C3_ExpiredIsMissAndRemoved ==
    \A t \in Threads :
        Returning(t, "get") =>
            /\ (obs[t].present /\ obs[t].age >= lru.ttl_seconds)
                => /\ loc[t].ret = PyNone
                   /\ ~HasKey(lru.od, loc[t].key)
                   /\ loc[t].key \notin DOMAIN lru.ts
                   /\ Len(lru.od) = obs[t].size - 1
            /\ ~obs[t].present
                => /\ loc[t].ret = PyNone
                   /\ ~HasKey(lru.od, loc[t].key)
                   /\ Len(lru.od) = obs[t].size

C3_Witness ==
    \E t \in Threads : /\ Returning(t, "get")
                        /\ obs[t].present
                        /\ obs[t].age = lru.ttl_seconds
                        /\ obs[t].size = 2

(* C4: in every state a caller can observe (no call in the middle of its
   body) _cache and _timestamps hold the same keys; and every _remove_key
   removes a key that is still in both, once. *)
C4_MapAndTimestampsAgree ==
    /\ Quiescent => OdKeys(lru.od) = DOMAIN lru.ts
    /\ \A t \in Threads :
        /\ loc[t].pc = "rm_cache"
            => HasKey(lru.od, loc[t].rmkey) /\ loc[t].rmkey \in DOMAIN lru.ts
        /\ loc[t].pc = "rm_ts"
            => ~HasKey(lru.od, loc[t].rmkey) /\ loc[t].rmkey \in DOMAIN lru.ts

\* a thread is half-way through an eviction while the other one waits for the lock
C4_Witness ==
    \E t \in Threads :
        /\ loc[t].pc = "rm_ts" /\ loc[t].retpc = "set_loop"
        /\ OdKeys(lru.od) # DOMAIN lru.ts
        /\ \A u \in Threads \ {t} : loc[u].pc = "idle"

(***************************************************************************)
(* AsyncConnectionPool over asyncio.Semaphore (CPython 3.11+): a waiter is *)
(* a future in the FIFO _waiters; release hands the permit to the first    *)
(* waiter that is not done, which resumes later and leaves the queue.      *)
(***************************************************************************)
SemLockedNever(s) == FALSE

\* Semaphore.locked(): no permit left, or somebody is queued
SemLocked(s) == s.value = 0 \/ Len(s.waiters) > 0

\* Semaphore._wake_up_next(): the first waiter that is not done takes a permit
WakeUpNext(s) ==
    IF \E i \in 1..Len(s.waiters) : ~s.waiters[i].done
    THEN LET i == CHOOSE j \in 1..Len(s.waiters) :
                      /\ ~s.waiters[j].done
                      /\ \A h \in 1..(j - 1) : s.waiters[h].done
         IN [value |-> s.value - 1, waiters |-> [s.waiters EXCEPT ![i].done = TRUE]]
    ELSE s

\* the loop at the end of Semaphore.acquire: while self._value > 0: wake the next
RECURSIVE WakeWhilePermits(_)
WakeWhilePermits(s) ==
    IF s.value > 0 /\ WakeUpNext(s) # s THEN WakeWhilePermits(WakeUpNext(s)) ELSE s

\* a release that returns the permit and wakes nobody
SemReleaseSilent(s) == [s EXCEPT !.value = @ + 1]

\* Semaphore.release()
SemRelease(s) == WakeUpNext([s EXCEPT !.value = @ + 1])

\* the statements of AsyncConnectionPool.acquire after the await
Admit(q) == [q EXCEPT !.active = @ + 1, !.total = @ + 1]

\* AsyncConnectionPool.acquire: the semaphore is free, the caller is not suspended
AcquireNow(t) ==
    /\ task[t] = "idle"
    /\ pool.total + Len(pool.sem.waiters) < MaxAcquires
    /\ ~SemLocked(pool.sem)
    /\ pool' = Admit([pool EXCEPT !.sem.value = @ - 1])
    /\ task' = [task EXCEPT ![t] = "holding"]
    /\ UNCHANGED <<lruVars, now, searchVars, loaderVars, botVars>>

\* AsyncConnectionPool.acquire: the caller is suspended in Semaphore.acquire
AcquireWait(t) ==
    /\ task[t] = "idle"
    /\ pool.total + Len(pool.sem.waiters) < MaxAcquires
    /\ SemLocked(pool.sem)
    /\ pool' = [pool EXCEPT !.sem.waiters = Append(@, [task |-> t, done |-> FALSE])]
    /\ task' = [task EXCEPT ![t] = "waiting"]
    /\ UNCHANGED <<lruVars, now, searchVars, loaderVars, botVars>>

\* the event loop resumes a waiter whose future is done
AcquireResume(t) ==
    /\ task[t] = "waiting"
    /\ \E i \in 1..Len(pool.sem.waiters) :
           pool.sem.waiters[i].task = t /\ pool.sem.waiters[i].done
    /\ LET left == [pool.sem EXCEPT !.waiters = SelectSeq(@, LAMBDA w : w.task # t)]
       IN pool' = Admit([pool EXCEPT !.sem = WakeWhilePermits(left)])
    /\ task' = [task EXCEPT ![t] = "holding"]
    /\ UNCHANGED <<lruVars, now, searchVars, loaderVars, botVars>>

\* AsyncConnectionPool.release, by a task that holds a connection
Release(t) ==
    /\ task[t] = "holding"
    /\ pool' = [pool EXCEPT !.active = @ - 1, !.sem = SemRelease(@)]
    /\ task' = [task EXCEPT ![t] = "idle"]
    /\ UNCHANGED <<lruVars, now, searchVars, loaderVars, botVars>>

InitPool ==
    /\ lru = NewCache(1, 1)
    /\ lock = "none"
    /\ loc = [t \in Threads |-> IdleFrame]
    /\ obs = [t \in Threads |-> NoObs]
    /\ used = <<>>
    /\ now = 0
    /\ pool \in {NewPool(n) : n \in PoolSizes}
    /\ task = [t \in Tasks |-> "idle"]
    /\ SearchIdle
    /\ BotIdle

NextPool ==
    \/ \E t \in Tasks : AcquireNow(t)
    \/ \E t \in Tasks : AcquireWait(t)
    \/ \E t \in Tasks : AcquireResume(t)
    \/ \E t \in Tasks : Release(t)

SpecPool == InitPool /\ [][NextPool]_vars

Holders == {t \in Tasks : task[t] = "holding"}

(* C5: when every release is made by a task that holds a connection, the
   number of held connections (active_connections) is never above
   max_connections and never below zero. *)
C5_ActiveWithinBounds ==
    /\ pool.active = Cardinality(Holders)
    /\ pool.active >= 0
    /\ pool.active <= pool.max_connections

\* the pool is full and a task is suspended in acquire
C5_Witness ==
    /\ pool.active = pool.max_connections
    /\ pool.max_connections = 2
    /\ \E t \in Tasks : task[t] = "waiting"

(***************************************************************************)
(* SpecSearch: search calls on the module-level loader and performance     *)
(* manager, the clock, and clear_caches.  search makes no await, so a call *)
(* is one step of the event loop.                                          *)
(***************************************************************************)
SearchQueries == {<<>>, <<" ">>, <<"a">>, <<"A">>, <<"b", " ">>}

\* (k, threshold)
SearchParams == {<<3, 73>>, <<3, 100>>, <<1, 73>>}

Latencies == {1}

\* the collaborators work, or one of them fails during the call
Envs == {[modelOk |-> TRUE, encodeOk |-> TRUE, searchOk |-> TRUE],
         [modelOk |-> FALSE, encodeOk |-> TRUE, searchOk |-> TRUE],
         [modelOk |-> TRUE, encodeOk |-> FALSE, searchOk |-> TRUE],
         [modelOk |-> TRUE, encodeOk |-> TRUE, searchOk |-> FALSE]}

Restrict(d, keys) == [x \in (DOMAIN d) \cap keys |-> d[x]]

\* faq_loader.search(raw, k, threshold), with the request tracked in its finally
Search(raw, k, threshold, env, response_time) ==
    /\ pm.metrics.total_requests < MaxRequests
    /\ \E r \in SearchBody(pm, fl, raw, k, threshold, env, now) :
         /\ pm' = TrackRequest(r.pm, response_time, pool.active)
         /\ fl' = r.fl
         /\ call' = [raw |-> raw, k |-> k, threshold |-> threshold, ret |-> r.ret,
                     path |-> r.path, embLookup |-> r.embLookup, encoded |-> r.encoded,
                     searched |-> r.searched, stored |-> r.stored,
                     fault |-> r.fault, cands |-> r.cands, kept |-> r.kept]
         /\ wrote' = Restrict(IF r.stored
                              THEN DictSet(wrote, QueryKey(CacheKey(Strip(raw), k, threshold)),
                                           <<Strip(raw), k, threshold>>)
                              ELSE wrote,
                              OdKeys(r.pm.query_cache.od))
    /\ UNCHANGED <<lruVars, now, poolVars, loaderVars, botVars>>

\* performance_manager.clear_caches()
ClearCaches ==
    /\ pm' = ClearedCaches(pm)
    /\ wrote' = <<>>
    /\ call' = NoCall
    /\ UNCHANGED <<lruVars, now, poolVars, fl, loaderVars, botVars>>

InitSearch ==
    /\ lru = NewCache(1, 1)
    /\ lock = "none"
    /\ loc = [t \in Threads |-> IdleFrame]
    /\ obs = [t \in Threads |-> NoObs]
    /\ used = <<>>
    /\ now = 0
    /\ pool = NewPool(1)
    /\ task = [t \in Tasks |-> "idle"]
    /\ pm = NewPerformanceManager
    /\ fl \in {NewLoader, LoadedLoader}
    /\ call = NoCall
    /\ wrote = <<>>
    /\ disk = NewDisk
    /\ loadOp = NoOp
    /\ reload = NoReload
    /\ BotIdle

NextSearch ==
    \/ \E raw \in SearchQueries, p \in SearchParams, env \in Envs, response_time \in Latencies :
            Search(raw, p[1], p[2], env, response_time)
    \/ ClearCaches
    \/ Tick

SpecSearch == InitSearch /\ [][NextSearch]_vars

\* a step that is a search call (every call is tracked as one request)
IsSearchStep == pm'.metrics.total_requests = pm.metrics.total_requests + 1

\* the query-cache key of the call made by the step
StepKey == QueryKey(CacheKey(Strip(call'.raw), call'.k, call'.threshold))

\* the step repeats the arguments of the call before it
SameArguments ==
    /\ call.path # "none"
    /\ call'.raw = call.raw /\ call'.k = call.k /\ call'.threshold = call.threshold

\* if the query cache holds the call's key, the entry has not reached its ttl
NotExpired ==
    StepKey \in DOMAIN pm.query_cache.ts
        => now - pm.query_cache.ts[StepKey] < pm.query_cache.ttl_seconds

\* pm without the fields that track_request writes
Untracked(P) == [P EXCEPT !.metrics.total_requests = 0,
                          !.metrics.avg_response_time = <<0, 1>>,
                          !.metrics.active_connections = 0,
                          !.response_times = <<>>]

(* C6 as claimed: a search with an empty or whitespace-only query returns
   (None, None) and leaves all shared state unchanged. *)
C6_BlankQueryChangesNothing ==
    [][(IsSearchStep /\ Strip(call'.raw) = <<>>)
        => /\ call'.ret = NoneNone
           /\ pm' = pm /\ fl' = fl]_vars

(* C6 amended: a search with an empty or whitespace-only query returns
   (None, None) and leaves both caches with their counters, the metrics'
   cache_hits and cache_misses, the index and the loader unchanged; the one
   thing it changes is the request tracking of track_request
   (total_requests grows by one, the response time is recorded). *)
C6_BlankQueryOnlyTracked ==
    [][(IsSearchStep /\ Strip(call'.raw) = <<>>)
        => /\ call'.ret = NoneNone
           /\ pm'.query_cache = pm.query_cache
           /\ pm'.embedding_cache = pm.embedding_cache
           /\ Untracked(pm') = Untracked(pm)
           /\ pm'.metrics.total_requests = pm.metrics.total_requests + 1
           /\ Len(pm'.response_times) = Len(pm.response_times) + 1
           /\ fl' = fl]_vars

\* a whitespace-only search made after a search that had filled the caches
C6_Witness ==
    /\ call.raw = <<" ">> /\ call.path = "invalid"
    /\ pm.metrics.total_requests = 2
    /\ pm.query_cache.od # <<>> /\ pm.embedding_cache.od # <<>>

(* C7: when the query cache holds an unexpired entry for the call's key,
   search returns the stored result and makes no embedding-cache lookup, no
   provider call and no index search. *)
C7_HitBypassesEmbeddingAndIndex ==
    [][(/\ IsSearchStep
        /\ Strip(call'.raw) # <<>>
        /\ HasKey(pm.query_cache.od, StepKey)
        /\ StepKey \in DOMAIN pm.query_cache.ts
        /\ now - pm.query_cache.ts[StepKey] < pm.query_cache.ttl_seconds)
        => /\ call'.ret = OdGet(pm.query_cache.od, StepKey)
           /\ call'.path = "hit"
           /\ ~call'.embLookup /\ ~call'.encoded /\ ~call'.searched
           /\ pm'.embedding_cache = pm.embedding_cache
           /\ fl' = fl]_vars

\* a stored match was returned from the query cache
C7_Witness ==
    /\ call.path = "hit" /\ call.ret # NoneNone
    /\ pm.query_cache.hits = 1

(* C8 as claimed: a search that repeats the arguments of the search before
   it returns the same result and is a query-cache hit. *)
C8_RepeatIsAlwaysHit ==
    [][(IsSearchStep /\ SameArguments)
        => /\ call'.ret = call.ret
           /\ call'.path = "hit"
           /\ pm'.query_cache.hits = pm.query_cache.hits + 1]_vars

(* C8 amended: when the first call stored its result or was itself served
   from the query cache, and the entry has not reached its ttl, the repeated
   call returns the same result and is a query-cache hit (hits grows by
   one). *)
C8_RepeatOfCachedCallIsHit ==
    [][(/\ IsSearchStep /\ SameArguments
        /\ call.path \in {"found", "no_match", "empty", "hit"}
        /\ NotExpired)
        => /\ call'.ret = call.ret
           /\ call'.path = "hit"
           /\ pm'.query_cache.hits = pm.query_cache.hits + 1
           /\ pm'.metrics.cache_hits = pm.metrics.cache_hits + 1]_vars

\* the second of two calls was a hit on what the first one computed
C8_Witness ==
    /\ pm.metrics.total_requests = 2
    /\ call.path = "hit" /\ call.raw = <<"b", " ">>
    /\ pm.query_cache.hits = 1 /\ pm.query_cache.misses = 1

(* C9: a search in which no candidate reaches the threshold stores
   (None, None) under its key, which a lookup tells from absence; and the
   same search repeated on the unexpired entry returns (None, None) from
   the cache without a call of the provider. *)
C9_NoMatchIsCached ==
    [][IsSearchStep
        => /\ call'.path = "no_match"
              => /\ call'.ret = NoneNone
                 /\ LRUGet(pm'.query_cache, StepKey, now).l.ret = Some(NoneNone)
           /\ (SameArguments /\ call.path = "no_match" /\ NotExpired)
              => /\ call'.ret = NoneNone
                 /\ call'.path = "hit"
                 /\ ~call'.encoded /\ ~call'.searched]_vars

\* a no-match was returned from the query cache
C9_Witness ==
    /\ call.path = "hit" /\ call.ret = NoneNone
    /\ pm.metrics.total_requests = 2

(* C10: a search served from the query cache receives a result that was
   written by a search with the same (trimmed query, k, threshold). *)
C10_HitWasWrittenForSameTriple ==
    [][(IsSearchStep /\ call'.path = "hit")
        => /\ StepKey \in DOMAIN wrote
           /\ wrote[StepKey] = <<Strip(call'.raw), call'.k, call'.threshold>>]_vars

(***************************************************************************)
(* SpecLoader: the operator edits faq.json; load_faq, create_embeddings    *)
(* and rebuild_index are called on the module-level loader, each to its    *)
(* end, and searches are made in between.                                  *)
(***************************************************************************)
MaxLoaderOps == 2

\* the contents faq.json can have
FaqFiles == {DefaultFaq,
             FaqList(<<Entry(<<"a">>, <<>>), Entry(<<"b">>, <<<<"a">>>>)>>),
             FaqList(<<Entry(<<"b">>, <<>>), Entry(<<"a">>, <<>>)>>),
             FaqList(<<>>),
             NoList("object")}

\* (query, k, threshold): searches with the defaults of k and threshold, one
\* with k below 1 and one with the threshold above 1.0
LoaderSearches == {<<<<"a">>, 3, SimilarityThreshold>>,
                   <<<<"b">>, 3, SimilarityThreshold>>,
                   <<<<"a">>, 0, SimilarityThreshold>>,
                   <<<<"a">>, 3, 150>>}

\* the collaborators work during the searches of this specification
Working == [modelOk |-> TRUE, encodeOk |-> TRUE, searchOk |-> TRUE]

\* the last loader call was a load_faq that returned
Loaded == loadOp.name = "load_faq" /\ ~loadOp.raised

\* the operator replaces faq.json (while a loader call is still to come)
EditFaqFile(file) ==
    /\ loadOp.n < MaxLoaderOps
    /\ file # disk.faq_file
    /\ disk' = [disk EXCEPT !.faq_file = file]
    /\ UNCHANGED <<lruVars, now, poolVars, searchVars, loadOp, reload, botVars>>

\* faq_loader.load_faq()
LoadFaqCall ==
    /\ loadOp.n < MaxLoaderOps
    /\ LET r == LoadFaq(fl, disk.faq_file)
       IN /\ fl' = r.fl
          /\ loadOp' = [name |-> "load_faq", raised |-> r.raised, ret |-> FALSE,
                        n |-> loadOp.n + 1, afterLoad |-> Loaded]
    /\ UNCHANGED <<lruVars, now, poolVars, pm, call, wrote, disk, reload, botVars>>

\* faq_loader.create_embeddings(force_rebuild)
CreateEmbeddingsCall(force_rebuild, env) ==
    /\ loadOp.n < MaxLoaderOps
    /\ LET r == CreateEmbeddings(pm, fl, disk, force_rebuild, env)
       IN /\ pm' = r.pm
          /\ fl' = r.fl
          /\ disk' = r.disk
          /\ loadOp' = [name |-> "create_embeddings", raised |-> r.raised, ret |-> FALSE,
                        n |-> loadOp.n + 1, afterLoad |-> Loaded]
    /\ UNCHANGED <<lruVars, now, poolVars, call, wrote, reload, botVars>>

\* faq_loader.rebuild_index()
RebuildIndexCall(env) ==
    /\ loadOp.n < MaxLoaderOps
    /\ LET r == RebuildIndex(pm, fl, disk, env)
       IN /\ pm' = r.pm
          /\ fl' = r.fl
          /\ disk' = r.disk
          /\ loadOp' = [name |-> "rebuild_index", raised |-> FALSE, ret |-> r.ret,
                        n |-> loadOp.n + 1, afterLoad |-> Loaded]
    /\ UNCHANGED <<lruVars, now, poolVars, call, wrote, reload, botVars>>

InitLoader ==
    /\ lru = NewCache(1, 1)
    /\ lock = "none"
    /\ loc = [t \in Threads |-> IdleFrame]
    /\ obs = [t \in Threads |-> NoObs]
    /\ used = <<>>
    /\ now = 0
    /\ pool = NewPool(1)
    /\ task = [t \in Tasks |-> "idle"]
    /\ pm = NewPerformanceManager
    /\ fl = NewLoader
    /\ call = NoCall
    /\ wrote = <<>>
    /\ disk \in {[NewDisk EXCEPT !.faq_file = file] : file \in FaqFiles}
    /\ loadOp = NoOp
    /\ reload = NoReload
    /\ BotIdle

NextLoader ==
    \/ \E file \in FaqFiles : EditFaqFile(file)
    \/ LoadFaqCall
    \/ \E force_rebuild \in BOOLEAN, env \in Envs : CreateEmbeddingsCall(force_rebuild, env)
    \/ \E env \in Envs : RebuildIndexCall(env)
    \/ \E s \in LoaderSearches, response_time \in Latencies :
            Search(s[1], s[2], s[3], Working, response_time)

SpecLoader == InitLoader /\ [][NextLoader]_vars

\* the call returned the candidate c of the kept ones
Returned(c) == call.ret = Found(c.similarity, c.original_idx)

(* C11: when search computes a match, the candidate it returns is one that
   passed the threshold, no kept candidate has a higher similarity, and among
   the kept candidates of that same similarity none has a lower entry index,
   whatever order the index listed them in. *)
C11_BestThenLowestEntryIndex ==
    call.path = "found"
        => \E i \in 1..Len(call.kept) :
              /\ Returned(call.kept[i])
              /\ \A j \in 1..Len(call.kept) :
                    /\ call.kept[j].similarity <= call.kept[i].similarity
                    /\ call.kept[j].similarity = call.kept[i].similarity
                          => call.kept[i].original_idx <= call.kept[j].original_idx

\* the row position of candidate c is one of the loader's rows
InRange(c) == 0 <= c.idx /\ c.idx < Len(fl.original_indices)

\* candidate c is among the kept ones, under the entry index of its row
KeptAs(c) ==
    \E j \in 1..Len(call.kept) :
        call.kept[j] = [similarity |-> c.similarity,
                        original_idx |-> fl.original_indices[c.idx + 1]]

(* C12: in a search that reached the filter, a candidate with an in-range row
   position is kept if and only if its similarity is greater than or equal to
   the threshold (equal is kept, below is dropped), and nothing else is
   kept. *)
C12_KeptIffAtLeastThreshold ==
    (call.path \in {"found", "no_match"} /\ call.threshold \in 0..100)
        => /\ \A i \in 1..Len(call.cands) :
                 InRange(call.cands[i])
                    => (KeptAs(call.cands[i]) <=> call.cands[i].similarity >= call.threshold)
           /\ Len(call.kept) <= Len(call.cands)

\* a candidate exactly at the threshold was kept and one below it was dropped
C12_Witness ==
    /\ call.path = "found"
    /\ \E i \in 1..Len(call.cands) :
          call.cands[i].similarity = call.threshold /\ KeptAs(call.cands[i])
    /\ \E i \in 1..Len(call.cands) :
          call.cands[i].similarity < call.threshold /\ ~KeptAs(call.cands[i])

(* C13 as claimed: a load_faq that succeeded, followed by rebuild_index,
   leaves is_ready() returning true. *)
C13_LoadThenRebuildIsReady ==
    (loadOp.name = "rebuild_index" /\ loadOp.afterLoad) => IsReady(fl)

(* C13 amended: a load_faq that succeeded, followed by a rebuild_index that
   returns True, leaves is_ready() returning true (a rebuild_index that
   cannot load the model or encode the strings, or that finds the file no
   longer loadable, returns False and need not leave the loader ready). *)
C13_LoadThenRebuiltIsReady ==
    (loadOp.name = "rebuild_index" /\ loadOp.afterLoad /\ loadOp.ret) => IsReady(fl)

\* rebuild_index returned True right after a successful load_faq on a loader
\* that had no index before
C13_Witness ==
    /\ loadOp.name = "rebuild_index" /\ loadOp.afterLoad /\ loadOp.ret
    /\ loadOp.n = 2
    /\ IsReady(fl)

\* the loader's corpus is the one a successful rebuild_index left
Rebuilt == loadOp.name = "rebuild_index" /\ loadOp.ret

\* the entry at position e of the loaded corpus has the text of the query as
\* its canonical (stripped) query
CanonicalOf(e, raw) == Strip(fl.faq[1][e + 1].query[1]) = Strip(raw)

(* C14: after load and rebuild of a valid corpus, a search (default k,
   default threshold) for the exact canonical query text of a surviving entry
   returns that entry's index, with a similarity of at least the threshold. *)
C14_SelfMatch ==
    [][(/\ IsSearchStep
        /\ Rebuilt
        /\ call'.k = 3 /\ call'.threshold = SimilarityThreshold)
        => \A e \in 0..(Len(fl.faq[1]) - 1) :
              CanonicalOf(e, call'.raw)
                 => \E similarity \in SimilarityThreshold..100 :
                        call'.ret = Found(similarity, e)]_vars

(* C15: a search in which the model load, the encoding of the query or the
   index search fails returns (None, None) and writes nothing to the query
   cache (no entry is added and none exists under the call's key afterwards);
   and when the same search is made again right after it and nothing fails,
   it is not served from the cache: it searches the index and returns what
   the filter computed. *)
C15_FailureIsNotCached ==
    [][IsSearchStep
        => /\ call'.fault
              => /\ call'.ret = NoneNone
                 /\ ~call'.stored
                 /\ ~HasKey(pm'.query_cache.od, StepKey)
                 /\ OdKeys(pm'.query_cache.od) \subseteq OdKeys(pm.query_cache.od)
           /\ (SameArguments /\ call.fault /\ ~call'.fault)
              => /\ call'.path \in {"found", "no_match"}
                 /\ call'.searched /\ call'.stored
                 /\ pm'.query_cache.hits = pm.query_cache.hits]_vars

\* the second of two searches computed a match after the first one, a miss on
\* a ready loader, had stored nothing
C15_Witness ==
    /\ pm.metrics.total_requests = 2 /\ now = 0
    /\ pm.query_cache.misses = 2 /\ pm.query_cache.hits = 0
    /\ Len(pm.query_cache.od) = 1
    /\ call.path = "found" /\ ~call.fault

\* the exits of search taken on an error: a failing provider or index, or an
\* index, corpus or model that is not there
ErrorPaths == {"exception", "encode_error", "search_error", "no_index", "no_faq", "no_model"}

(* C16: the value search returns when no candidate reaches the threshold is
   different from the value it returns on an error (provider failure, index
   search failure, index or corpus not initialized). *)
C16_NoMatchDiffersFromError ==
    [][(IsSearchStep /\ call.path = "no_match" /\ call'.path \in ErrorPaths)
        => call'.ret # call.ret]_vars

\* ret is a value search returns: (None, None) or ([similarity], [index])
ResultValue(ret) ==
    \/ ret = NoneNone
    \/ \E similarity \in 0..100, idx \in 0..(Len(fl.faq[1]) - 1) : ret = Found(similarity, idx)

(* C17: every search call ends by returning a result value to its caller: no
   exception leaves search, whatever the query, k and threshold and whether
   the model load, the encoding or the index search fails. *)
C17_SearchNeverRaises ==
    call.path # "none" => (call.path # "raise" /\ ResultValue(call.ret))

\* calls in which the index search raised and in which the model could not
\* be loaded have returned
C17_Witness ==
    /\ call.fault /\ call.path = "search_error" /\ call.ret = NoneNone
    /\ pm.metrics.total_requests = 2
    /\ fl.model # PyNone

\* the search made by the step kept candidate c, under the entry index of
\* its row
StepKept(c) ==
    \E j \in 1..Len(call'.kept) :
        call'.kept[j] = [similarity |-> c.similarity,
                         original_idx |-> fl.original_indices[c.idx + 1]]

\* the search made by the step kept exactly the in-range candidates whose
\* similarity is at least threshold
StepFilteredWith(threshold) ==
    \A i \in 1..Len(call'.cands) :
        InRange(call'.cands[i])
            => (StepKept(call'.cands[i]) <=> call'.cands[i].similarity >= threshold)

(* C18: a search called with a threshold outside [0, 1] is not rejected: on
   a loader that has its corpus and index, unless the result comes from the
   query cache, the call goes on to the index and the filter, and the filter
   keeps the candidates whose similarity is at least the configured default
   threshold. *)
C18_BadThresholdUsesDefault ==
    [][(IsSearchStep /\ call'.threshold \notin 0..100)
        => /\ (fl.index # PyNone /\ ~Falsy(fl.faq) /\ call'.k >= 1 /\ call'.path # "hit")
              => call'.path \in {"found", "no_match"}
           /\ call'.path \in {"found", "no_match"}
              => StepFilteredWith(SimilarityThreshold)]_vars

\* a search with threshold 1.5 found the entry of its text
C18_Witness ==
    /\ call.threshold = 150
    /\ call.path = "found"
    /\ \E idx \in 0..1 : call.ret = Found(100, idx)

\* the number of rows of the loader's index
IndexSize == Len(fl.index[1])

(* C19: a search called with k below 1 or above the number of indexed rows
   is not rejected: on a loader that has its corpus and index, unless the
   result comes from the query cache, the call goes on to the filter with a
   number of candidates between 1 and the size of the index, and so can
   return a match. *)
C19_BadKIsCorrected ==
    [][(/\ IsSearchStep
        /\ fl.index # PyNone /\ ~Falsy(fl.faq)
        /\ (call'.k < 1 \/ call'.k > IndexSize)
        /\ call'.path # "hit")
        => /\ call'.path \in {"found", "no_match"}
           /\ Len(call'.cands) \in 1..IndexSize]_vars

\* the step is a call of load_faq
IsLoadFaqStep == loadOp'.name = "load_faq" /\ loadOp'.n = loadOp.n + 1

\* faq.json holds JSON that is not a list, or an empty list
NotAListOrEmpty(file) == file.kind = "object" \/ (file.kind = "list" /\ file.items = <<>>)

(* C20: load_faq on an input that is not a list, or is an empty list, fails
   (raises), and leaves the loader's entry list, searchable-string list and
   index mapping exactly as they were before the call. *)
C20_BadInputFailsWithoutPartialCorpus ==
    [][(IsLoadFaqStep /\ NotAListOrEmpty(disk.faq_file))
        => /\ loadOp'.raised
           /\ fl'.faq = fl.faq
           /\ fl'.faq_queries = fl.faq_queries
           /\ fl'.original_indices = fl.original_indices]_vars

\* load_faq failed on such a file while the loader held a corpus, and the
\* corpus is still there
C20_Witness ==
    /\ loadOp.name = "load_faq" /\ loadOp.raised /\ loadOp.n = 2
    /\ NotAListOrEmpty(disk.faq_file)
    /\ ~Falsy(fl.faq) /\ ~Falsy(fl.faq_queries) /\ fl.original_indices # <<>>

(***************************************************************************)
(* SpecCorpus: load_faq, create_embeddings and rebuild_index, each to its  *)
(* end, on files with items the validation refuses and with the cache      *)
(* files an earlier run of the program left.                               *)
(***************************************************************************)
\* the contents faq.json can have: the default, the default in the other
\* order, one entry, refused items around an entry with variations, refused
\* items only, and entries whose query is whitespace
CorpusFiles == {DefaultFaq,
                FaqList(<<Entry(<<"b">>, <<>>), Entry(<<"a">>, <<>>)>>),
                FaqList(<<Entry(<<"a">>, <<>>)>>),
                FaqList(<<NotADict, WithoutQuery,
                          Entry(<<"a">>, <<<<" ">>, <<"b", " ">>, <<"A">>>>),
                          EmptyQuery, NumberQuery, WithoutResponse(<<"b">>)>>),
                FaqList(<<NotADict, EmptyQuery, WithoutResponse(<<"a">>)>>),
                FaqList(<<Entry(<<" ">>, <<>>), Entry(<<"a">>, <<>>)>>),
                FaqList(<<Entry(<<" ">>, <<>>)>>)}

\* embeddings.pkl and the index file: absent, or written by an earlier run
\* on the default faq.json
PersistedCaches == {PyNone, Some(EncodeAll(<<<<"a">>, <<"b">>>>))}

InitCorpus ==
    /\ lru = NewCache(1, 1)
    /\ lock = "none"
    /\ loc = [t \in Threads |-> IdleFrame]
    /\ obs = [t \in Threads |-> NoObs]
    /\ used = <<>>
    /\ now = 0
    /\ pool = NewPool(1)
    /\ task = [t \in Tasks |-> "idle"]
    /\ pm = NewPerformanceManager
    /\ fl = NewLoader
    /\ call = NoCall
    /\ wrote = <<>>
    /\ disk \in {[faq_file |-> file, embeddings_file |-> c, index_file |-> c,
                  corrupt |-> bad] :
                    file \in CorpusFiles, c \in PersistedCaches, bad \in BOOLEAN}
    /\ disk.corrupt => disk.embeddings_file # PyNone
    /\ loadOp = NoOp
    /\ reload = NoReload
    /\ BotIdle

NextCorpus ==
    \/ \E file \in CorpusFiles : EditFaqFile(file)
    \/ LoadFaqCall
    \/ \E force_rebuild \in BOOLEAN, env \in Envs : CreateEmbeddingsCall(force_rebuild, env)
    \/ \E env \in Envs : RebuildIndexCall(env)

SpecCorpus == InitCorpus /\ [][NextCorpus]_vars

\* an item the loader is to refuse: not a dict, no query or an empty one, or
\* no response
Invalid(item) ==
    \/ ~item.isdict
    \/ item.query = PyNone
    \/ item.query[1] = <<>>
    \/ ~item.response

\* the items of faq.json that are dicts with a non-empty str query and a
\* response, in the order of the file
WellFormed(items) == SelectSeq(items, LAMBDA item : ~Invalid(item) /\ item.isstr)

(* C21: load_faq on a non-empty list drops every invalid item (not a dict,
   no query or an empty one, no response) and goes on with the items after
   it, so that the entry list holds exactly the well-formed items in the order
   of the file; and it succeeds if and only if at least one searchable string
   remains after the filtering, and raises otherwise. *)
C21_InvalidDroppedLoadGoesOn ==
    [][(IsLoadFaqStep /\ disk.faq_file.kind = "list" /\ disk.faq_file.items # <<>>)
        => /\ \A e \in 1..Len(fl'.faq[1]) : ~Invalid(fl'.faq[1][e])
           /\ fl'.faq = Some(WellFormed(disk.faq_file.items))
           /\ loadOp'.raised <=> fl'.faq_queries = Some(<<>>)]_vars

\* a load that succeeded on a file of six items, five of them refused, some
\* before and some after the entry that was kept
C21_Witness ==
    /\ Loaded
    /\ Len(disk.faq_file.items) = 6
    /\ Len(fl.faq[1]) = 1
    /\ fl.faq[1][1] = disk.faq_file.items[3]
    /\ fl.faq_queries # Some(<<>>)

\* the searchable strings that original_indices maps to the entry at index e
OwnedBy(e) ==
    LET rows == SelectSeq([i \in 1..Len(fl.original_indices) |-> i],
                          LAMBDA i : fl.original_indices[i] = e)
    IN [j \in 1..Len(rows) |-> fl.faq_queries[1][rows[j]]]

\* the variations of an item that are not empty once stripped, in their order
NonEmptyVariations(item) == SelectSeq(StripAll(item.variations), LAMBDA text : text # <<>>)

(* C22: after a load_faq that succeeded, the strings mapped to each surviving
   entry are its canonical (stripped) query first and then its non-empty
   variations in their order, so that every surviving entry owns at least one
   searchable string; and original_indices is non-decreasing and as long as
   the list of searchable strings. *)
C22_CanonicalQueryFirst ==
    Loaded
        => /\ Len(fl.original_indices) = Len(fl.faq_queries[1])
           /\ \A i, j \in 1..Len(fl.original_indices) :
                 i <= j => fl.original_indices[i] <= fl.original_indices[j]
           /\ \A e \in 0..(Len(fl.faq[1]) - 1) :
                 /\ OwnedBy(e) # <<>>
                 /\ OwnedBy(e) = <<Strip(fl.faq[1][e + 1].query[1])>>
                                   \o NonEmptyVariations(fl.faq[1][e + 1])

\* the step is a call of create_embeddings
IsCreateEmbeddingsStep == loadOp'.name = "create_embeddings" /\ loadOp'.n = loadOp.n + 1

\* the index holds one freshly made vector for each searchable string of F
FreshIndex(F) == F.index = Some(EncodeAll(F.faq_queries[1]))

(* C23: a create_embeddings call that returns leaves the index read from the
   index file only when embeddings.pkl was readable and held as many vectors
   as there are searchable strings; when the count differs, or the file is
   absent or unreadable, every searchable string is embedded again and the
   index and both cache files are made anew from those vectors, one row per
   string. *)
C23_ReuseOnlyOnEqualCount ==
    [][(IsCreateEmbeddingsStep /\ ~loadOp'.raised)
        => /\ StoredCount(disk) # Len(fl'.faq_queries[1])
              => /\ FreshIndex(fl')
                 /\ disk'.index_file = fl'.index
                 /\ disk'.embeddings_file = fl'.index
                 /\ ~disk'.corrupt
           /\ ~FreshIndex(fl')
              => /\ StoredCount(disk) = Len(fl'.faq_queries[1])
                 /\ fl'.index = disk.index_file
                 /\ disk' = disk]_vars

\* create_embeddings made a one-row index for a one-entry corpus, next to
\* which no cache of that size had been stored
C23_Witness ==
    /\ loadOp.name = "create_embeddings" /\ ~loadOp.raised
    /\ loadOp.n = 2
    /\ Len(fl.faq_queries[1]) = 1
    /\ FreshIndex(fl)
    /\ disk.index_file = fl.index

(***************************************************************************)
(* SpecReload: after the startup (load_faq and create_embeddings on the    *)
(* default faq.json), one thread runs load_faq or rebuild_index statement  *)
(* by statement while searches are made on the same loader.                *)
(***************************************************************************)
\* faq.json at the time of the reload: unchanged, or edited since the startup
ReloadFiles == {DefaultFaq,
                FaqList(<<Entry(<<"a">>, <<>>), Entry(<<"b">>, <<<<"a">>>>)>>)}

\* (query, k, threshold)
ReloadSearches == {<<<<"a">>, 3, SimilarityThreshold>>, <<<<"b">>, 3, SimilarityThreshold>>}

\* a thread enters load_faq or rebuild_index
BeginReload(name) ==
    /\ reload.pc = "idle"
    /\ loadOp.n < MaxLoaderOps
    /\ reload' = [NoReload EXCEPT !.pc = ReloadEntryPc(name), !.op = name, !.old = fl]
    /\ UNCHANGED <<lruVars, now, poolVars, searchVars, disk, loadOp, botVars>>

\* one statement of the call
StepReload ==
    /\ reload.pc \notin {"idle", "done"}
    /\ LET s == ReloadStep(pm, fl, disk, reload, Working)
       IN /\ pm' = s.pm
          /\ fl' = s.fl
          /\ disk' = s.disk
          /\ reload' = s.l
    /\ UNCHANGED <<lruVars, now, poolVars, call, wrote, loadOp, botVars>>

\* the call returns (rebuild_index: True unless load_faq or create_embeddings raised)
EndReload ==
    /\ reload.pc = "done"
    /\ loadOp' = [name |-> reload.op,
                  raised |-> reload.op = "load_faq" /\ reload.raised,
                  ret |-> reload.op = "rebuild_index" /\ ~reload.raised,
                  n |-> loadOp.n + 1, afterLoad |-> Loaded]
    /\ reload' = NoReload
    /\ UNCHANGED <<lruVars, now, poolVars, searchVars, disk, botVars>>

InitReload ==
    /\ lru = NewCache(1, 1)
    /\ lock = "none"
    /\ loc = [t \in Threads |-> IdleFrame]
    /\ obs = [t \in Threads |-> NoObs]
    /\ used = <<>>
    /\ now = 0
    /\ pool = NewPool(1)
    /\ task = [t \in Tasks |-> "idle"]
    /\ pm = NewPerformanceManager
    /\ fl = LoadedLoader
    /\ call = NoCall
    /\ wrote = <<>>
    /\ disk \in {[faq_file |-> file, embeddings_file |-> LoadedLoader.index,
                  index_file |-> LoadedLoader.index, corrupt |-> FALSE] :
                    file \in ReloadFiles}
    /\ loadOp = NoOp
    /\ reload = NoReload
    /\ BotIdle

NextReload ==
    \/ \E name \in {"load_faq", "rebuild_index"} : BeginReload(name)
    \/ StepReload
    \/ EndReload
    \/ \E s \in ReloadSearches, response_time \in Latencies :
            Search(s[1], s[2], s[3], Working, response_time)

SpecReload == InitReload /\ [][NextReload]_vars

\* a load_faq or rebuild_index call is between its first and its last statement
Reloading == reload.pc \notin {"idle", "done"}

\* the loader as the running call leaves it when it runs alone
Reloaded ==
    IF reload.op = "load_faq"
    THEN LoadFaq(reload.old, disk.faq_file).fl
    ELSE RebuildIndex(pm, reload.old, disk, Working).fl

\* what the search made by the step returns on the loader F
Answers(F) ==
    {r.ret : r \in SearchBody(pm, F, call'.raw, call'.k, call'.threshold, Working, now)}

(* C24: a search made while load_faq or rebuild_index is running never sees
   a half-updated corpus: it returns what it returns on the loader as the
   running call found it, or what it returns on the loader as that call
   leaves it. *)
C24_SearchSeesOldOrNewCorpus ==
    [][(IsSearchStep /\ Reloading)
        => call'.ret \in Answers(reload.old) \cup Answers(Reloaded)]_vars

(* C25: whenever is_ready() is true, after any load_faq, create_embeddings
   and rebuild_index calls (failed ones too), the index holds one vector for
   each searchable string, and row i is the vector of string i. *)
C25_ReadyIndexMatchesStrings ==
    IsReady(fl) => FreshIndex(fl)

\* the stripped query of the search made by the step, and its embedding-cache key
StepQuery == Strip(call'.raw)

StepEmbeddingKey == EmbeddingKey(StepQuery)

\* the query cache has no unexpired entry for the call made by the step
QueryCacheMiss == LRUGet(pm.query_cache, StepKey, now).l.ret = PyNone

\* the embedding cache has an unexpired entry for the query of the step
EmbeddingCached == LRUGet(pm.embedding_cache, StepEmbeddingKey, now).l.ret # PyNone

(* C26: a search with a query-cache miss on a loader that has its index, its
   corpus and its model looks the query up in the embedding cache; when the
   embedding cache has the query, the provider is not called; when it has
   not, the provider is called, and unless the provider fails its vector is in
   the embedding cache under the query's key when the index is searched, also
   when that search then fails. *)
C26_EmbeddingCacheBeforeProvider ==
    [][(/\ IsSearchStep
        /\ StepQuery # <<>>
        /\ QueryCacheMiss
        /\ fl.index # PyNone /\ ~Falsy(fl.faq)
        /\ call'.path \notin {"exception", "no_model"})
        => /\ call'.embLookup
           /\ EmbeddingCached
                => /\ ~call'.encoded
                   /\ call'.searched
                   /\ OdGet(pm'.embedding_cache.od, StepEmbeddingKey)
                        = OdGet(pm.embedding_cache.od, StepEmbeddingKey)
           /\ ~EmbeddingCached
                => /\ call'.encoded
                   /\ call'.path # "encode_error"
                        => /\ call'.searched
                           /\ LRUGet(pm'.embedding_cache, StepEmbeddingKey, now).l.ret
                                = Some(Encode(StepQuery))]_vars

\* the second of two searches missed the query cache and took its vector from
\* the embedding cache, where the first one had put it
C26_Witness ==
    /\ pm.metrics.total_requests = 2
    /\ pm.query_cache.misses = 2
    /\ pm.embedding_cache.hits = 1 /\ pm.embedding_cache.misses = 1
    /\ call.embLookup /\ ~call.encoded /\ call.searched

(* C27: a vector a search takes from the embedding cache was computed from a
   query whose trimmed text is the trimmed text of the query of that
   search. *)
C27_CachedVectorIsOfSameText ==
    [][(IsSearchStep /\ call'.embLookup /\ ~call'.encoded)
        => OdGet(pm.embedding_cache.od, StepEmbeddingKey).text = StepQuery]_vars

\* the step is the fresh hit of thread t's get: the value is about to be returned
IsHitStep(t) ==
    /\ loc[t].pc = "get_check"
    /\ loc'[t].pc = "unlock"
    /\ loc'[t].ret # PyNone

\* key is the most recently used entry of the OrderedDict
IsLast(od, key) == od # <<>> /\ od[Len(od)].k = key

(* C28 as claimed: a fresh hit of get sets the entry's timestamp to the time
   of the hit, makes the entry the most recently used one and leaves its
   value unchanged. *)
C28_HitBumpsTimestamp ==
    [][\A t \in Threads :
          IsHitStep(t)
            => /\ lru'.ts[loc[t].key] = now
               /\ IsLast(lru'.od, loc[t].key)
               /\ OdGet(lru'.od, loc[t].key) = OdGet(lru.od, loc[t].key)]_vars

(* C28 amended: a fresh hit of get makes the entry the most recently used
   one, returns its value and leaves the value, the stored keys and every
   timestamp unchanged: the entry's timestamp stays the time of its last set,
   so the ttl runs from the set and not from the last hit. *)
C28_HitKeepsTimestamp ==
    [][\A t \in Threads :
          IsHitStep(t)
            => /\ lru'.ts = lru.ts
               /\ IsLast(lru'.od, loc[t].key)
               /\ OdGet(lru'.od, loc[t].key) = OdGet(lru.od, loc[t].key)
               /\ loc'[t].ret = Some(OdGet(lru.od, loc[t].key))
               /\ OdKeys(lru'.od) = OdKeys(lru.od)]_vars

\* a get hit an entry set one tick earlier and moved it behind an entry that
\* was set after it
C28_Witness ==
    \E t \in Threads :
        /\ Returning(t, "get") /\ loc[t].ret # PyNone
        /\ obs[t].age = 1
        /\ Len(lru.od) = 2 /\ IsLast(lru.od, loc[t].key)
        /\ lru.ts[lru.od[1].k] > lru.ts[loc[t].key]

\* the number of entries stored under key
Count(od, key) == Len(SelectSeq(od, LAMBDA e : e.k = key))

(* C29: a set of a key that is already stored replaces the entry: the
   timestamp it writes is the current time, and when the call returns there
   is exactly one entry for the key, with the new value, at the most recently
   used position; the size is what it was when the call started, the same keys
   are stored and nothing was evicted. *)
C29_SetReplacesByRemoveAndReinsert ==
    [][\A t \in Threads :
          (loc[t].op = "set" /\ obs[t].present)
            => /\ loc[t].pc = "set_ts" /\ loc'[t].pc # "set_ts"
                    => lru'.ts[loc[t].key] = now
               /\ loc[t].pc = "unlock" /\ loc'[t].pc = "idle"
                    => /\ Count(lru.od, loc[t].key) = 1
                       /\ OdGet(lru.od, loc[t].key) = loc[t].value
                       /\ IsLast(lru.od, loc[t].key)
                       /\ Len(lru.od) = obs[t].size
                       /\ obs[t].evicted = <<>>
                       /\ OdKeys(lru.od) = DOMAIN lru.ts
                       /\ lru.ts[loc[t].key] <= now]_vars

\* a set replaced the older of two stored entries, which is now the most
\* recently used and carries the later timestamp
C29_Witness ==
    \E t \in Threads :
        /\ Returning(t, "set") /\ obs[t].present
        /\ obs[t].size = 2 /\ Len(lru.od) = 2
        /\ IsLast(lru.od, loc[t].key)
        /\ lru.ts[loc[t].key] > lru.ts[lru.od[1].k]
        /\ obs[t].age >= 1

\* the step is the last statement of a get call
GetReturns ==
    \E t \in Threads :
        /\ loc[t].op = "get"
        /\ loc[t].pc \notin {"idle", "unlock"}
        /\ loc'[t].pc = "unlock"

(* C30: the hit and miss counters never decrease; the step on which a get
   call ends adds one to exactly one of them (hits when a value is returned,
   misses when None is); every other step, those of set, of clear and of the
   removals among them, leaves both unchanged. *)
C30_CountersCountGets ==
    [][IF GetReturns
       THEN \A t \in Threads :
              (loc[t].op = "get" /\ loc'[t].pc = "unlock" /\ loc[t].pc # "unlock")
                => IF loc'[t].ret # PyNone
                   THEN lru'.hits = lru.hits + 1 /\ lru'.misses = lru.misses
                   ELSE lru'.hits = lru.hits /\ lru'.misses = lru.misses + 1
       ELSE lru'.hits = lru.hits /\ lru'.misses = lru.misses]_vars

\* a clear returns after a hit and a miss were counted, and both are still there
C30_Witness ==
    \E t \in Threads :
        /\ Returning(t, "clear")
        /\ lru.hits = 1 /\ lru.misses = 1
        /\ lru.od = <<>>

(***************************************************************************)
(* SpecTrack: track_request alone, on a performance manager that has       *)
(* already served some requests, so that the response-time window fills    *)
(* up and overflows within a few calls.                                    *)
(***************************************************************************)
MaxTracks == 4          \* track_request calls of one behaviour

TrackLatencies == {1, 2, 3}

\* requests served before the behaviour begins
Served == {0, ResponseWindow - 2, ResponseWindow}

\* the latencies of those requests
EarlierLatencies(n) == [i \in 1..n |-> (i % 3) + 1]

\* the performance manager after track_request was called with each of `times`,
\* no more than a full window of them, while no connection was active
ServedManager(times) ==
    [NewPerformanceManager EXCEPT
        !.metrics.total_requests = Len(times),
        !.response_times = times,
        !.metrics.avg_response_time = IF times = <<>> THEN @ ELSE <<SumSeq(times), Len(times)>>]

Track(response_time) ==
    /\ Len(track.times) < track.start + MaxTracks
    /\ pm' = TrackRequest(pm, response_time, pool.active)
    /\ track' = [track EXCEPT !.times = Append(@, response_time)]
    /\ UNCHANGED <<lruVars, now, poolVars, fl, call, wrote, loaderVars, guardVars, chatVars>>

InitTrack ==
    /\ lru = NewCache(1, 1)
    /\ lock = "none"
    /\ loc = [t \in Threads |-> IdleFrame]
    /\ obs = [t \in Threads |-> NoObs]
    /\ used = <<>>
    /\ now = 0
    /\ pool = NewPool(1)
    /\ task = [t \in Tasks |-> "idle"]
    /\ \E n \in Served :
          /\ pm = ServedManager(EarlierLatencies(n))
          /\ track = [start |-> n, times |-> EarlierLatencies(n)]
    /\ fl = NewLoader
    /\ call = NoCall
    /\ wrote = <<>>
    /\ disk = NewDisk
    /\ loadOp = NoOp
    /\ reload = NoReload
    /\ GuardIdle
    /\ ChatIdle

NextTrack == \E response_time \in TrackLatencies : Track(response_time)

SpecTrack == InitTrack /\ [][NextTrack]_vars

\* C31: after any sequence of track_request calls the window holds at most
\* 1000 values, they are the most recently recorded latencies in arrival
\* order, and avg_response_time is the mean (sum over count) of the window
C31_WindowIsLastThousand ==
    LET w == pm.response_times
        h == track.times
    IN Len(h) > 0 =>
        /\ Len(w) <= ResponseWindow
        /\ Len(w) = Min(Len(h), ResponseWindow)
        /\ \A i \in 1..Len(w) : w[i] = h[Len(h) - Len(w) + i]
        /\ pm.metrics.avg_response_time = <<SumSeq(w), Len(w)>>

\* more than 1000 latencies were recorded and the oldest ones were dropped
C31_Witness ==
    /\ Len(track.times) = ResponseWindow + 2
    /\ Len(pm.response_times) = ResponseWindow
    /\ pm.response_times[1] = track.times[3]
    /\ pm.response_times[1] # track.times[1]

(***************************************************************************)
(* SpecMetrics: search calls during which the metrics collection may fail: *)
(* the hit/miss counting of get_cached_query_result, inside the try block  *)
(* of search, or track_request, in its finally block.                      *)
(***************************************************************************)
MetricsEnvs == {[countOk |-> TRUE, trackOk |-> TRUE],
                [countOk |-> FALSE, trackOk |-> TRUE],
                [countOk |-> TRUE, trackOk |-> FALSE]}

\* FAQLoader.search up to its return (lines 380-526), where the counting statement of
\* get_cached_query_result may raise once the query cache has been read
SearchBodyCounting(P, F, raw, k, threshold, env, t, countOk) ==
    IF countOk \/ IsBlank(raw) THEN SearchBody(P, F, raw, k, threshold, env, t)
    ELSE LET cache_key == CacheKey(Strip(raw), k, threshold)
             g == LRUGet(P.query_cache, QueryKey(cache_key), t)
         IN {Except(Raise([P EXCEPT !.query_cache = g.c], F, {"fault"}),
                    cache_key, "exception", t)}

\* faq_loader.search(raw, k, threshold): track_request, called in the finally block,
\* returns, or raises on entry, and then its exception leaves search in place of
\* the value the call was about to return
SearchMetered(raw, k, threshold, metrics, response_time) ==
    /\ Len(track.times) < MaxRequests
    /\ \E r \in SearchBodyCounting(pm, fl, raw, k, threshold, Working, now, metrics.countOk) :
         /\ pm' = IF metrics.trackOk THEN TrackRequest(r.pm, response_time, pool.active)
                  ELSE r.pm
         /\ fl' = r.fl
         /\ call' = [raw |-> raw, k |-> k, threshold |-> threshold,
                     ret |-> IF metrics.trackOk THEN r.ret ELSE PyNone,
                     path |-> IF metrics.trackOk THEN r.path ELSE "raise",
                     embLookup |-> r.embLookup, encoded |-> r.encoded,
                     searched |-> r.searched, stored |-> r.stored,
                     fault |-> r.fault \/ ~metrics.trackOk, cands |-> r.cands,
                     kept |-> r.kept]
         /\ wrote' = Restrict(IF r.stored
                              THEN DictSet(wrote, QueryKey(CacheKey(Strip(raw), k, threshold)),
                                           <<Strip(raw), k, threshold>>)
                              ELSE wrote,
                              OdKeys(r.pm.query_cache.od))
    /\ track' = [track EXCEPT !.times = Append(@, response_time)]
    /\ UNCHANGED <<lruVars, now, poolVars, loaderVars, guardVars, chatVars>>

InitMetrics ==
    /\ lru = NewCache(1, 1)
    /\ lock = "none"
    /\ loc = [t \in Threads |-> IdleFrame]
    /\ obs = [t \in Threads |-> NoObs]
    /\ used = <<>>
    /\ now = 0
    /\ pool = NewPool(1)
    /\ task = [t \in Tasks |-> "idle"]
    /\ pm = NewPerformanceManager
    /\ fl \in {NewLoader, LoadedLoader}
    /\ call = NoCall
    /\ wrote = <<>>
    /\ disk = NewDisk
    /\ loadOp = NoOp
    /\ reload = NoReload
    /\ BotIdle

NextMetrics ==
    \E raw \in SearchQueries, p \in SearchParams, metrics \in MetricsEnvs,
       response_time \in Latencies :
        SearchMetered(raw, p[1], p[2], metrics, response_time)

SpecMetrics == InitMetrics /\ [][NextMetrics]_vars

\* C32: a failure inside the metrics collection (track_request, or the hit/miss
\* counting around the query cache) does not change the outcome of a search:
\* every search call returns, without raising, the value the call returns
\* when the metrics collection works
C32_MetricsFailureIsHarmless ==
    [][track'.times # track.times =>
         /\ call'.path # "raise"
         /\ \E r \in SearchBody(pm, fl, call'.raw, call'.k, call'.threshold, Working, now) :
                call'.ret = r.ret]_vars

(***************************************************************************)
(* SpecPoolFair: the pool under the scheduling of the asyncio event loop:  *)
(* a task whose future is done is on the ready queue and is resumed.  When *)
(* a holder releases is up to the holder, so no fairness is put on it.     *)
(***************************************************************************)
SpecPoolFair == SpecPool /\ \A t \in Tasks : WF_vars(AcquireResume(t))

\* the future of the suspended task t is done: release has handed it the permit
Woken(t) ==
    /\ task[t] = "waiting"
    /\ \E i \in 1..Len(pool.sem.waiters) :
           pool.sem.waiters[i].task = t /\ pool.sem.waiters[i].done

\* t is the suspended task that has waited longest without being handed a permit
NextInLine(t) ==
    \E i \in 1..Len(pool.sem.waiters) :
        /\ pool.sem.waiters[i].task = t /\ ~pool.sem.waiters[i].done
        /\ \A h \in 1..(i - 1) : pool.sem.waiters[h].done

\* C33: a caller suspended in acquire while all permits are held is granted a
\* permit once a holder calls release: the release hands the permit to the
\* caller that is next in line and the event loop then resumes it (fair
\* scheduling); and no suspended caller leaves acquire while all
\* max_connections permits are still held
C33_WaiterGrantedAfterRelease ==
    /\ [][pool'.active < pool.active =>
             \A t \in Tasks : NextInLine(t) => Woken(t)']_vars
    /\ \A t \in Tasks : Woken(t) ~> (task[t] = "holding")
    /\ [][\A t \in Tasks : (task[t] = "waiting" /\ task'[t] = "holding") =>
                                pool.active < pool.max_connections]_vars

\* a holder has released: the caller next in line has the permit and is about to
\* be resumed, while another caller is still suspended behind it
C33_Witness ==
    \E t \in Tasks, u \in Tasks :
        /\ Woken(t)
        /\ task[u] = "waiting" /\ ~Woken(u)
        /\ pool.active = pool.max_connections - 1

\* what the search made by the step computes against the loader as it is, with no
\* cached result in the way
Computed ==
    {r.ret : r \in SearchBody(ClearedCaches(pm), fl, call'.raw, call'.k, call'.threshold,
                              Working, now)}

\* the entry index of a returned match
EntryIndex(ret) == ret[2][1][1]

\* C34: once rebuild_index (or load_faq plus create_embeddings) has replaced the
\* corpus, no search returns a result computed against the previous corpus:
\* the entry index a search returns is a valid index into the current entry
\* list and is the one the current index matches for that query
C34_NoResultOfPreviousCorpus ==
    [][(IsSearchStep /\ call'.ret # NoneNone) =>
         /\ fl.faq # PyNone
         /\ EntryIndex(call'.ret) < Len(fl.faq[1])
         /\ call'.ret \in Computed]_vars

\* C35: when load_faq fails, for whatever reason, the entry list, the
\* searchable-string list and the row-to-entry mapping the loader held from
\* its last successful load are left unchanged
C35_FailedLoadKeepsCorpus ==
    [][(IsLoadFaqStep /\ loadOp'.raised /\ ~Falsy(fl.faq) /\ ~Falsy(fl.faq_queries))
        => /\ fl'.faq = fl.faq
           /\ fl'.faq_queries = fl.faq_queries
           /\ fl'.original_indices = fl.original_indices]_vars

(***************************************************************************)
(* SecurityMiddleware and UserActivity.  The clock counts minutes, so two  *)
(* events at the same reading lie in one one-minute window.  The limits,   *)
(* the lengths of the deques and the durations are scaled down, keeping    *)
(* their order: per-minute limit < minute deque < per-hour limit.          *)
(***************************************************************************)
MaxMinutes == 3             \* the clock of the middleware stops here
MaxEvents == 6              \* events given to the middleware in one behaviour
MaxRequestsPerMinute == 1   \* config.security.max_requests_per_minute (20)
MaxRequestsPerHour == 3     \* config.security.max_requests_per_hour (100)
MinuteDequeLen == 2         \* maxlen of requests_per_minute (60)
HourDequeLen == 4           \* maxlen of requests_per_hour (3600)
HourMinutes == 3            \* the window of the hourly limit, in minutes (60)
BlockMinutes == 1           \* minutes of the automatic block (30)
KeepMinutes == 2            \* days_to_keep of cleanup_old_data, in minutes (7 days)
SuspiciousLimit == 5

\* config.security.enable_rate_limiting and enable_input_validation
EnableRateLimiting == TRUE

EnableInputValidation == TRUE

\* UserActivity(user_id=user_id), created at time t
UserActivity(user_id, t) ==
    [user_id |-> user_id, requests_per_minute |-> <<>>, requests_per_hour |-> <<>>,
     total_requests |-> 0, suspicious_activity_count |-> 0, last_activity |-> t,
     is_blocked |-> FALSE, block_until |-> PyNone]

\* deque(maxlen=maxlen).append(x)
DequeAppend(d, x, maxlen) == LastN(Append(d, x), maxlen)

\* UserActivity.add_request
AddRequest(A, t) ==
    [A EXCEPT !.requests_per_minute = DequeAppend(@, t, MinuteDequeLen),
              !.requests_per_hour = DequeAppend(@, t, HourDequeLen),
              !.total_requests = @ + 1,
              !.last_activity = t]

\* UserActivity.get_requests_in_window
RequestsInWindow(A, window_minutes, t) ==
    LET cutoff == t - window_minutes
        d == IF window_minutes <= HourMinutes THEN A.requests_per_minute
             ELSE A.requests_per_hour
    IN Cardinality({i \in 1..Len(d) : d[i] > cutoff})

\* UserActivity.is_rate_limited: the returned value and the activity it leaves
IsRateLimited(A, t) ==
    IF A.is_blocked /\ A.block_until # PyNone /\ t < A.block_until[1]
    THEN [ret |-> TRUE, activity |-> A]
    ELSE LET B == IF A.is_blocked /\ A.block_until # PyNone
                  THEN [A EXCEPT !.is_blocked = FALSE, !.block_until = PyNone]
                  ELSE A
         IN IF RequestsInWindow(B, 1, t) > MaxRequestsPerMinute
            THEN [ret |-> TRUE, activity |-> B]
            ELSE IF RequestsInWindow(B, HourMinutes, t) > MaxRequestsPerHour
                 THEN [ret |-> TRUE, activity |-> B]
                 ELSE [ret |-> FALSE, activity |-> B]

\* UserActivity.block_user
BlockUser(A, minutes, t) == [A EXCEPT !.is_blocked = TRUE, !.block_until = Some(t + minutes)]

\* UserActivity.add_suspicious_activity
AddSuspiciousActivity(A, t) ==
    LET B == [A EXCEPT !.suspicious_activity_count = @ + 1]
    IN IF B.suspicious_activity_count >= SuspiciousLimit THEN BlockUser(B, BlockMinutes, t)
       ELSE B

\* SecurityMiddleware.get_user_activity: the middleware with the activity in place
WithUserActivity(M, user_id, t) ==
    IF user_id \in DOMAIN M.user_activities THEN M
    ELSE [M EXCEPT !.user_activities = DictSet(@, user_id, UserActivity(user_id, t))]

\* the outcome of SecurityMiddleware.__call__: the middleware it leaves, whether
\* the handler was called and whether the event was refused as rate limited
Outcome(M, forwarded, limited) == [mw |-> M, forwarded |-> forwarded, limited |-> limited]

\* SecurityMiddleware.__call__ on an event of `user` (none: an event without a
\* user; admin: config.ADMIN_ID) whose user passes validate_user or not and whose
\* text passes validate_message_content or not; dbOk: db.update_user_activity
\* returns, otherwise it raises and the except branch calls the handler
Call(M, event, dbOk, t) ==
    IF event.user \in {"none", "admin"} THEN Outcome(M, TRUE, FALSE)
    ELSE LET user_id == event.user
             N == WithUserActivity(M, user_id, t)
             activity == N.user_activities[user_id]
             Put(A) == [N EXCEPT !.user_activities[user_id] = A]
         IN IF ~event.valid_user
            THEN Outcome(Put(AddSuspiciousActivity(activity, t)), FALSE, FALSE)
            ELSE IF activity.is_blocked THEN Outcome(N, FALSE, FALSE)
            ELSE LET r == IF EnableRateLimiting THEN IsRateLimited(activity, t)
                          ELSE [ret |-> FALSE, activity |-> activity]
                 IN IF r.ret THEN Outcome(Put(r.activity), FALSE, TRUE)
                    ELSE IF EnableInputValidation /\ ~event.text_ok
                         THEN Outcome(Put(AddSuspiciousActivity(r.activity, t)), FALSE, FALSE)
                         ELSE Outcome(Put(AddRequest(r.activity, t)), TRUE, FALSE)

\* SecurityMiddleware.cleanup_old_data
CleanedUp(M, days_to_keep, t) ==
    LET cutoff == t - days_to_keep
        users_to_remove == {u \in DOMAIN M.user_activities :
                               /\ M.user_activities[u].last_activity < cutoff
                               /\ ~M.user_activities[u].is_blocked}
    IN [M EXCEPT !.user_activities = Restrict(@, (DOMAIN @) \ users_to_remove)]

(***************************************************************************)
(* SpecGuard: events of the admin, of one other user and without a user    *)
(* reach the middleware while the minutes pass.                            *)
(***************************************************************************)
GuardEvents == {[user |-> "none", valid_user |-> TRUE, text_ok |-> TRUE],
                [user |-> "admin", valid_user |-> TRUE, text_ok |-> TRUE],
                [user |-> "u", valid_user |-> TRUE, text_ok |-> TRUE],
                [user |-> "u", valid_user |-> FALSE, text_ok |-> TRUE],
                [user |-> "u", valid_user |-> TRUE, text_ok |-> FALSE]}

\* the dispatcher calls the middleware with an event
Dispatch(event, dbOk) ==
    /\ sent.n < MaxEvents
    /\ LET r == Call(mw, event, dbOk, now)
       IN /\ mw' = r.mw
          /\ sent' = [n |-> sent.n + 1, event |-> event, forwarded |-> r.forwarded,
                      limited |-> r.limited,
                      accepted |-> IF r.forwarded /\ event.user = "u"
                                   THEN Append(sent.accepted, now) ELSE sent.accepted]
    /\ UNCHANGED <<lruVars, now, poolVars, searchVars, loaderVars, track, chatVars>>

\* a minute passes
Minute ==
    /\ now < MaxMinutes
    /\ now' = now + 1
    /\ UNCHANGED <<lruVars, poolVars, searchVars, loaderVars, botVars>>

\* security_middleware.cleanup_old_data()
CleanupOldData ==
    /\ mw' = CleanedUp(mw, KeepMinutes, now)
    /\ mw' # mw
    /\ UNCHANGED <<lruVars, now, poolVars, searchVars, loaderVars, track, sent, chatVars>>

InitGuard ==
    /\ lru = NewCache(1, 1)
    /\ lock = "none"
    /\ loc = [t \in Threads |-> IdleFrame]
    /\ obs = [t \in Threads |-> NoObs]
    /\ used = <<>>
    /\ now = 0
    /\ pool = NewPool(1)
    /\ task = [t \in Tasks |-> "idle"]
    /\ SearchIdle
    /\ BotIdle

NextGuard ==
    \/ \E event \in GuardEvents, dbOk \in BOOLEAN : Dispatch(event, dbOk)
    \/ Minute
    \/ CleanupOldData

SpecGuard == InitGuard /\ [][NextGuard]_vars

\* the step gives the middleware an event of the tracked user that passes the
\* validation of its user and of its text
IsValidEventStep ==
    /\ sent'.n = sent.n + 1
    /\ sent'.event = [user |-> "u", valid_user |-> TRUE, text_ok |-> TRUE]

\* the tracked user was blocked by block_user and block_until has passed
BlockHasPassed ==
    /\ "u" \in DOMAIN mw.user_activities
    /\ mw.user_activities["u"].is_blocked
    /\ mw.user_activities["u"].block_until # PyNone
    /\ now > mw.user_activities["u"].block_until[1]

\* C36: a user blocked by block_user(minutes) is blocked only temporarily: once
\* block_until has passed, the next valid event of the user is forwarded to the
\* handler
C36_BlockIsTemporary ==
    [][(IsValidEventStep /\ BlockHasPassed) => sent'.forwarded]_vars

\* the events of the tracked user forwarded to the handler in the minute of the
\* clock's reading
ForwardedThisMinute == {i \in 1..Len(sent.accepted) : sent.accepted[i] = now}

\* C37: with rate limiting enabled, at most max_requests_per_minute events of
\* one user are forwarded to the handler within a one-minute window
C37_AtMostLimitPerMinute ==
    Cardinality(ForwardedThisMinute) <= MaxRequestsPerMinute

\* the events of the tracked user forwarded to the handler in the last 60 minutes
ForwardedThisHour == {i \in 1..Len(sent.accepted) : sent.accepted[i] > now - HourMinutes}

\* C38: with rate limiting enabled, a user of whom more than
\* max_requests_per_hour events were accepted within the last 60 minutes is rate
\* limited: is_rate_limited returns true and the user's next event is refused
C38_HourLimitApplies ==
    [][(sent'.n = sent.n + 1 /\ sent'.event.user = "u" /\ sent'.event.valid_user
          /\ Cardinality(ForwardedThisHour) > MaxRequestsPerHour)
        => /\ IsRateLimited(mw.user_activities["u"], now).ret
           /\ ~sent'.forwarded]_vars

(***************************************************************************)
(* start_handler and message_handler (handlers.py) over the database.      *)
(***************************************************************************)
MaxMessages == 4        \* messages given to the handlers in one behaviour

\* config.ACCESS_PASSWORD (the default of the ACCESS_PASSWORD setting)
AccessPassword == <<"1", "3", "3", "7">>

\* config.BLOCKED_WORDS
BlockedWords == {<<"x">>}

\* bad_word in text
Contains(text, word) ==
    \E i \in 1..(Len(text) - Len(word) + 1) : SubSeq(text, i, i + Len(word) - 1) = word

\* db.is_user_authenticated: a failing database answers False
IsUserAuthenticated(D, user_id, dbOk) == dbOk /\ user_id \in D.authenticated

\* db.authenticate_user: a failing database stores nothing
AuthenticateUser(D, user_id, dbOk) ==
    IF dbOk THEN [D EXCEPT !.authenticated = @ \cup {user_id}] ELSE D

CheckAuthenticationAlways(D, user, dbOk) == TRUE

\* check_authentication
CheckAuthentication(D, user, dbOk) ==
    IF user = "none" THEN FALSE
    ELSE IF user = "admin" THEN TRUE
    ELSE IsUserAuthenticated(D, user, dbOk)

\* what a handler leaves: the waiting set, the database, its reply and whether
\* it goes on to faq_loader.search
Handled(W, D, reply, search) == [waiting |-> W, db |-> D, reply |-> reply, search |-> search]

\* start_handler
StartHandler(W, D, user, dbOk) ==
    IF user = "none" THEN Handled(W, D, "none", FALSE)
    ELSE IF CheckAuthentication(D, user, dbOk) THEN Handled(W, D, "welcome", FALSE)
    ELSE Handled(W \cup {user}, D, "enter_password", FALSE)

\* message_handler up to the search (lines 1157-1202)
MessageHandler(W, D, user, raw, dbOk) ==
    LET text == Strip(raw)
    IN IF text = <<>> THEN Handled(W, D, "send_text", FALSE)
       ELSE IF user = "none" THEN Handled(W, D, "none", FALSE)
       ELSE IF user \in W
            THEN IF text = AccessPassword
                 THEN Handled(W \ {user}, AuthenticateUser(D, user, dbOk), "authenticated", FALSE)
                 ELSE Handled(W, D, "wrong_password", FALSE)
       ELSE IF ~CheckAuthentication(D, user, dbOk) THEN Handled(W, D, "not_authenticated", FALSE)
       ELSE IF \E bad_word \in BlockedWords : Contains(Lower(text), bad_word)
            THEN Handled(W, D, "blocked_word", FALSE)
       ELSE Handled(W, D, "answer", TRUE)

(***************************************************************************)
(* SpecChat: /start and text messages of the admin, of one other user and  *)
(* without a sender reach the handlers of a bot whose corpus is loaded.    *)
(***************************************************************************)
ChatUsers == {"none", "admin", "u"}

\* message.text: the password, the password with a space before or after it, a
\* wrong password, a question, a blocked word and a blank text
ChatTexts == {AccessPassword, <<" ">> \o AccessPassword, AccessPassword \o <<" ">>,
              <<"1", "3", "3">>, <<"a">>, <<"x">>, <<" ">>}

\* the router gives a /start message to start_handler
Start(user, dbOk) ==
    /\ handled.n < MaxMessages
    /\ LET h == StartHandler(waiting, db, user, dbOk)
       IN /\ waiting' = h.waiting
          /\ db' = h.db
          /\ handled' = [n |-> handled.n + 1, user |-> user, text |-> <<"/start">>,
                         handler |-> "start", searched |-> FALSE, reply |-> h.reply]
    /\ UNCHANGED <<lruVars, now, poolVars, searchVars, loaderVars, track, guardVars>>

\* the router gives any other text message to message_handler, which answers
\* from faq_loader.search(text, threshold=config.SIMILARITY_THRESHOLD)
Message(user, raw, dbOk, response_time) ==
    /\ handled.n < MaxMessages
    /\ LET h == MessageHandler(waiting, db, user, raw, dbOk)
       IN /\ waiting' = h.waiting
          /\ db' = h.db
          /\ handled' = [n |-> handled.n + 1, user |-> user, text |-> raw,
                         handler |-> "message", searched |-> h.search, reply |-> h.reply]
          /\ IF h.search
             THEN \E r \in SearchBody(pm, fl, Strip(raw), 3, SimilarityThreshold, Working, now) :
                    /\ pm' = TrackRequest(r.pm, response_time, pool.active)
                    /\ fl' = r.fl
                    /\ call' = [raw |-> Strip(raw), k |-> 3, threshold |-> SimilarityThreshold,
                                ret |-> r.ret, path |-> r.path, embLookup |-> r.embLookup,
                                encoded |-> r.encoded, searched |-> r.searched,
                                stored |-> r.stored, fault |-> r.fault, cands |-> r.cands,
                                kept |-> r.kept]
                    /\ wrote' = Restrict(IF r.stored
                                         THEN DictSet(wrote,
                                                  QueryKey(CacheKey(Strip(raw), 3,
                                                                    SimilarityThreshold)),
                                                  <<Strip(raw), 3, SimilarityThreshold>>)
                                         ELSE wrote,
                                         OdKeys(r.pm.query_cache.od))
             ELSE UNCHANGED searchVars
    /\ UNCHANGED <<lruVars, now, poolVars, loaderVars, track, guardVars>>

InitChat ==
    /\ lru = NewCache(1, 1)
    /\ lock = "none"
    /\ loc = [t \in Threads |-> IdleFrame]
    /\ obs = [t \in Threads |-> NoObs]
    /\ used = <<>>
    /\ now = 0
    /\ pool = NewPool(1)
    /\ task = [t \in Tasks |-> "idle"]
    /\ pm = NewPerformanceManager
    /\ fl = LoadedLoader
    /\ call = NoCall
    /\ wrote = <<>>
    /\ disk = NewDisk
    /\ loadOp = NoOp
    /\ reload = NoReload
    /\ BotIdle

NextChat ==
    \/ \E user \in ChatUsers, dbOk \in BOOLEAN : Start(user, dbOk)
    \/ \E user \in ChatUsers, raw \in ChatTexts, dbOk \in BOOLEAN,
          response_time \in Latencies : Message(user, raw, dbOk, response_time)

SpecChat == InitChat /\ [][NextChat]_vars

\* the step gives a message to a handler
IsMessageStep == handled'.n = handled.n + 1

\* the step is a message_handler call, by a user who is waiting for the
\* password, with the text `sentText`
PasswordAttempt(sentText) ==
    /\ handled'.handler = "message"
    /\ handled'.user \in waiting
    /\ sentText = AccessPassword

\* search only for the authenticated; out of the waiting set and into the
\* database only by a password attempt; any other text changes nothing
AuthenticationGate(sentText) ==
    /\ (handled'.searched /\ handled'.user # "admin") => handled'.user \in db.authenticated
    /\ handled'.searched <=> IsSearchStep
    /\ (waiting' # waiting \/ db' # db) =>
          \/ /\ PasswordAttempt(sentText)
             /\ waiting' = waiting \ {handled'.user}
             /\ db'.authenticated \in {db.authenticated,
                                        db.authenticated \cup {handled'.user}}
          \/ /\ handled'.handler = "start"
             /\ waiting' = waiting \cup {handled'.user} /\ db' = db
    /\ (handled'.handler = "message" /\ handled'.user \in waiting
          /\ Strip(handled'.text) # <<>> /\ sentText # AccessPassword)
        => /\ waiting' = waiting /\ db' = db
           /\ ~handled'.searched
           /\ handled'.reply = "wrong_password"

\* C39: in message_handler a FAQ search is executed for a non-admin user only
\* if the user is authenticated; a user in waiting_for_password leaves that
\* set and becomes authenticated only by sending exactly the access password,
\* and a wrong password leaves the user waiting and unauthenticated with no
\* search performed
C39_OnlyExactPassword ==
    [][IsMessageStep => AuthenticationGate(handled'.text)]_vars

\* C39 as amended: the same, where the password is recognised in the text once
\* its leading and trailing whitespace is stripped
C39_OnlyStrippedPassword ==
    [][IsMessageStep => AuthenticationGate(Strip(handled'.text))]_vars

\* the user asked for the password, failed once, then sent it and was
\* authenticated, and a question of the user has been answered by a search
C39_Witness ==
    /\ handled.n = MaxMessages
    /\ handled.user = "u" /\ handled.searched /\ handled.text = <<"a">>
    /\ "u" \in db.authenticated /\ "u" \notin waiting
    /\ call.ret = Found(100, 0)

====
